---- MODULE Spec2Model ----
(***************************************************************************)
(* Model of the GitHub pull-request review pipeline:                       *)
(*   controllers/githubController.ts  handleWebhook, handlePullRequestEvent,*)
(*                                    convertToGitHubComments, manualReview *)
(*   services/githubService.ts        GitHubService (gateway)               *)
(*   services/openaiService.ts        reviewCodeWithAI, extractJSONFromResponse *)
(* A run is one HTTP request.  Each action is the stretch of handler code   *)
(* between two awaits: it performs the awaited external call (whose         *)
(* outcome is chosen nondeterministically) and the synchronous code that    *)
(* follows it up to the next await or to the end of the handler.            *)
(***************************************************************************)
EXTENDS Integers, Sequences, FiniteSets, TLC

VARIABLES runs, reviews, openaiClient, env, harness

vars == <<runs, reviews, openaiClient, env, harness>>

(***************************************************************************)
(* Bounds and finite input domains                                         *)
(***************************************************************************)
\* Number of hex digits of the modelled HMAC digest (64 in the program).
DigestLen == 2

\* Concurrent requests in flight in the process, and the pull requests they name.
Runs == {"r1", "r2"}
PRs == {"pr1", "pr2"}

\* The login under which reviews created by the App installation are listed,
\* and the login of a human reviewer.
BotLogin == "ai-pr-reviewer-bot"
HumanLogin == "octocat"

Undefined == "<undefined>"

(***************************************************************************)
(* Strings are sequences of one-character strings.                         *)
(***************************************************************************)
HexDigits == <<"0", "1", "2", "3", "4", "5", "6", "7", "8", "9", "a", "b", "c", "d", "e", "f">>

Sha256Prefix == <<"s", "h", "a", "2", "5", "6", "=">>

\* crypto.createHmac('sha256', secret).update(payload).digest('hex'): a keyed
\* digest, distinct for the distinct (secret, payload) pairs of the model.
SecretCode(secret) == IF secret = "webhook-secret" THEN 3 ELSE 7

PayloadCode(payload) ==
    (IF payload.pr = "pr1" THEN 0 ELSE 1)
    + 2 * (IF payload.installation = 0 THEN 0 ELSE 1)
    + 4 * (CASE payload.action = "opened" -> 0
             [] payload.action = "synchronize" -> 1
             [] payload.action = "reopened" -> 2
             [] OTHER -> 3)

HmacHex(secret, payload) ==
    [i \in 1..DigestLen |->
        HexDigits[((SecretCode(secret) * i + PayloadCode(payload) + i) % 16) + 1]]

ExpectedSignature(secret, payload) == Sha256Prefix \o HmacHex(secret, payload)

\* A header value: req.headers[...] is a string or undefined.
Header(str) == [defined |-> TRUE, str |-> str]
AbsentHeader == [defined |-> FALSE, str |-> <<>>]

FlipLast(s) ==
    [i \in 1..Len(s) |-> IF i = Len(s) THEN (IF s[i] = "0" THEN "1" ELSE "0") ELSE s[i]]

\* Signature headers a sender can attach to a payload.
SignatureHeaders(payload) ==
    LET good == ExpectedSignature("webhook-secret", payload)
    IN { Header(good),
         Header(ExpectedSignature("attacker-secret", payload)),
         Header(FlipLast(good)),
         Header(SubSeq(good, 1, Len(good) - 1)),
         Header(good \o <<"0">>),
         Header(<<>>),
         AbsentHeader }

(***************************************************************************)
(* GitHubService.verifyWebhookSignature                                    *)
(***************************************************************************)
Return(v) == [kind |-> "return", value |-> v, error |-> "none"]
Throw(e) == [kind |-> "throw", value |-> FALSE, error |-> e]

\* Buffer.from(value): a TypeError for undefined.
BufferFrom(h) == IF h.defined THEN Return(h.str) ELSE Throw("TypeError")

\* crypto.timingSafeEqual(a, b): a RangeError when the byte lengths differ.
timingSafeEqual(a, b) ==
    IF Len(a) # Len(b) THEN Throw("RangeError") ELSE Return(a = b)

verifyWebhookSignature(payload, signature, webhookSecret) ==
    LET expectedSignature == ExpectedSignature(webhookSecret, payload)
        buf == BufferFrom(signature)
    IN IF buf.kind = "throw" THEN Throw(buf.error)
       ELSE timingSafeEqual(buf.value, expectedSignature)

(***************************************************************************)
(* GitHubService gateway operations.  tok is the outcome of the           *)
(* installation-token exchange ("ok" or "fail"), api the outcome of the    *)
(* REST call that follows it.  Each result carries the REST calls made.    *)
(***************************************************************************)
TokenOutcomes == {"ok", "fail"}

Result(kind, value, error, calls) ==
    [kind |-> kind, value |-> value, error |-> error, calls |-> calls]

\* getInstallationToken via createInstallationOctokit: a fresh JWT and one
\* POST to the token endpoint per invocation.
getInstallationToken(tok) ==
    IF tok = "ok"
    THEN Result("return", "token", "none", <<"apps.createInstallationAccessToken">>)
    ELSE Result("throw", "none", "Failed to get installation access token",
                <<"apps.createInstallationAccessToken">>)

\* Mutant: a failed listing is rethrown like the other gateway methods do.
hasBotReviewed_Rethrow(tok, listing, botUsername) ==
    LET t == getInstallationToken(tok)
    IN IF t.kind = "throw"
       THEN Result("throw", FALSE, "Failed to check bot reviews: " \o t.error, t.calls)
       ELSE IF listing = <<"fail">>
            THEN Result("throw", FALSE, "Failed to check bot reviews: HttpError",
                        t.calls \o <<"pulls.listReviews">>)
            ELSE Result("return",
                        \E i \in 1..Len(listing) : listing[i] = botUsername,
                        "none", t.calls \o <<"pulls.listReviews">>)

\* listing is "fail" or the sequence of reviews of the pull request.
hasBotReviewed(tok, listing, botUsername) ==
    LET t == getInstallationToken(tok)
    IN IF t.kind = "throw" THEN Result("return", FALSE, "none", t.calls)
       ELSE IF listing = <<"fail">>
            THEN Result("return", FALSE, "none", t.calls \o <<"pulls.listReviews">>)
            ELSE Result("return",
                        \E i \in 1..Len(listing) : listing[i] = botUsername,
                        "none", t.calls \o <<"pulls.listReviews">>)

\* Mutant: the diff is fetched with a token obtained earlier.
getPRDiff_CachedToken(tok, api) ==
    IF api = <<"fail">>
    THEN Result("throw", <<>>, "Failed to fetch PR diff: HttpError", <<"pulls.get(diff)">>)
    ELSE Result("return", api, "none", <<"pulls.get(diff)">>)

\* api is <<"fail">> or the diff text.
getPRDiff(tok, api) ==
    LET t == getInstallationToken(tok)
    IN IF t.kind = "throw"
       THEN Result("throw", <<>>, "Failed to fetch PR diff: " \o t.error, t.calls)
       ELSE IF api = <<"fail">>
            THEN Result("throw", <<>>, "Failed to fetch PR diff: HttpError",
                        t.calls \o <<"pulls.get(diff)">>)
            ELSE Result("return", api, "none", t.calls \o <<"pulls.get(diff)">>)

\* api is "fail", "notFound" (404: no such pull request) or the head SHA of
\* the pull request.
getPRDetails(tok, api) ==
    LET t == getInstallationToken(tok)
    IN IF t.kind = "throw"
       THEN Result("throw", "none", "Failed to fetch PR details: " \o t.error, t.calls)
       ELSE IF api = "notFound"
            THEN Result("throw", "none", "Failed to fetch PR details: HttpError: Not Found",
                        t.calls \o <<"pulls.get">>)
       ELSE IF api = "fail"
            THEN Result("throw", "none", "Failed to fetch PR details: HttpError",
                        t.calls \o <<"pulls.get">>)
            ELSE Result("return", api, "none", t.calls \o <<"pulls.get">>)

\* api is "ok" or "fail".
postReviewComments(tok, api) ==
    LET t == getInstallationToken(tok)
    IN IF t.kind = "throw"
       THEN Result("throw", "none", "Failed to post review comments: " \o t.error, t.calls)
       ELSE IF api = "fail"
            THEN Result("throw", "none", "Failed to post review comments: HttpError",
                        t.calls \o <<"pulls.createReview">>)
            ELSE Result("return", "review", "none", t.calls \o <<"pulls.createReview">>)

\* api is "installed", "notInstalled" (404), "fail" (a network or API failure)
\* or "signingError" (generateJWT throws in createAppOctokit, before any
\* request is made); 0 stands for null.
Installation == [id |-> 42]
InstallationId == Installation.id

\* Mutant: a failed lookup is rethrown instead of answered with null.
getRepositoryInstallation_Rethrow(api) ==
    IF api = "installed"
    THEN Result("return", InstallationId, "none", <<"apps.getRepoInstallation">>)
    ELSE Result("throw", 0, "Failed to get repository installation: HttpError",
                IF api = "signingError" THEN <<>> ELSE <<"apps.getRepoInstallation">>)

getRepositoryInstallation(api) ==
    IF api = "installed"
    THEN Result("return", InstallationId, "none", <<"apps.getRepoInstallation">>)
    ELSE Result("return", 0, "none",
                IF api = "signingError" THEN <<>> ELSE <<"apps.getRepoInstallation">>)

(***************************************************************************)
(* JSON values and completion texts (openaiService.ts).                    *)
(* A text is a sequence of tokens: "{" and "}", "prose" (characters that   *)
(* are neither brace nor JSON), a member token (the members of an object), *)
(* or an atom token (a JSON value that is not an object).                  *)
(***************************************************************************)
JNull == [t |-> "null"]
JBool(b) == [t |-> "bool", b |-> b]
JNum(n) == [t |-> "num", n |-> n]
JStr(s) == [t |-> "str", s |-> s]
JList(items) == [t |-> "list", items |-> items]
\* An object of the completion: the comments member (JUndef when absent).
JUndef == [t |-> "undefined"]
JObj(comments) == [t |-> "obj", comments |-> comments]
\* An element of the comments list that is an object; absent members are Undefined.
JComment(id, fileName, content, type) ==
    [t |-> "comment", id |-> id, fileName |-> fileName, content |-> content, type |-> type]

\* Mutant: an empty list counted as falsy.
Truthy_EmptyListFalsy(v) ==
    CASE v.t = "null" -> FALSE
      [] v.t = "undefined" -> FALSE
      [] v.t = "bool" -> v.b
      [] v.t = "num" -> v.n # 0
      [] v.t = "str" -> v.s # ""
      [] v.t = "list" -> v.items # <<>>
      [] OTHER -> TRUE

\* JavaScript truthiness.
Truthy(v) ==
    CASE v.t = "null" -> FALSE
      [] v.t = "undefined" -> FALSE
      [] v.t = "bool" -> v.b
      [] v.t = "num" -> v.n # 0
      [] v.t = "str" -> v.s # ""
      [] OTHER -> TRUE

\* value || fallback for a string-valued member.
OrElse(v, fallback) == IF v = Undefined \/ v = "" THEN fallback ELSE v

\* The members a member token stands for.
MemberValue(tok) ==
    CASE tok = "m:other" -> JObj(JUndef)
      [] tok = "m:empty" -> JObj(JList(<<>>))
      [] tok = "m:one" -> JObj(JList(<<JComment(Undefined, Undefined, "x", Undefined)>>))
      [] tok = "m:info" -> JObj(JList(<<JComment("c1", "a.ts", "looks fine", "info")>>))
      [] tok = "m:blank" -> JObj(JList(<<JComment("c1", Undefined, " ", "nitpick")>>))
      [] tok = "m:two" -> JObj(JList(<<JComment("c1", "a.ts", "looks fine", "error"),
                                       JComment(Undefined, Undefined, "", "praise")>>))
      [] tok = "m:same" -> JObj(JList(<<JComment("c1", "a.ts", "looks fine", "info"),
                                        JComment("c2", "b.ts", "fine too", "info")>>))
      [] tok = "m:nullitem" -> JObj(JList(<<JNull>>))
      [] tok = "m:null" -> JObj(JNull)
      [] tok = "m:false" -> JObj(JBool(FALSE))
      [] tok = "m:zero" -> JObj(JNum(0))
      [] tok = "m:emptystr" -> JObj(JStr(""))
      [] tok = "m:num" -> JObj(JNum(5))
      [] tok = "m:str" -> JObj(JStr("none"))
      [] tok = "m:obj" -> JObj(JObj(JUndef))

MemberTokens ==
    {"m:other", "m:empty", "m:one", "m:info", "m:blank", "m:two", "m:same", "m:nullitem",
     "m:null",
     "m:false", "m:zero", "m:emptystr", "m:num", "m:str", "m:obj"}

AtomValue(tok) ==
    CASE tok = "null" -> JNull
      [] tok = "false" -> JBool(FALSE)
      [] tok = "0" -> JNum(0)
      [] tok = "5" -> JNum(5)
      [] tok = "\"s\"" -> JStr("s")
      [] tok = "[]" -> JList(<<>>)

AtomTokens == {"null", "false", "0", "5", "\"s\"", "[]"}

\* JSON.parse: the value, or a SyntaxError.
JSONParse(text) ==
    IF Len(text) = 1 /\ text[1] \in AtomTokens THEN Return(AtomValue(text[1]))
    ELSE IF text = <<"{", "}">> THEN Return(JObj(JUndef))
    ELSE IF Len(text) = 3 /\ text[1] = "{" /\ text[3] = "}" /\ text[2] \in MemberTokens
         THEN Return(MemberValue(text[2]))
    ELSE Throw("SyntaxError")

\* response.match(/\{[\s\S]*\}/): greedy, from the first "{" to the last "}".
Positions(text, tok) == {i \in 1..Len(text) : text[i] = tok}
Min(S) == CHOOSE x \in S : \A y \in S : x <= y
Max(S) == CHOOSE x \in S : \A y \in S : x >= y

HasBraceMatch(text) ==
    /\ Positions(text, "{") # {}
    /\ \E j \in Positions(text, "}") : j > Min(Positions(text, "{"))

BraceMatch(text) ==
    SubSeq(text, Min(Positions(text, "{")), Max(Positions(text, "}")))

\* Mutant: the fallback of lines 75-83 without its comment.
FallbackObject_NoComment == JObj(JList(<<>>))

FallbackObject ==
    JObj(JList(<<JComment("fallback_1", Undefined,
                          "Unable to parse AI response. Please try again.", "warning")>>))

extractJSONFromResponse(response) ==
    LET direct == JSONParse(response)
    IN IF direct.kind = "return" THEN direct
       ELSE IF HasBraceMatch(response)
            THEN LET inner == JSONParse(BraceMatch(response))
                 IN IF inner.kind = "return" THEN inner
                    ELSE Throw("Invalid JSON format in response")
            ELSE Return(FallbackObject)

(***************************************************************************)
(* reviewCodeWithAI (openaiService.ts)                                     *)
(***************************************************************************)
ValidTypes == {"error", "warning", "suggestion", "info"}

\* An error object: message is a sequence of words.
ErrorObj(status, code, message) == [status |-> status, code |-> code, message |-> message]
Includes(message, word) == \E i \in 1..Len(message) : message[i] = word

ReviewComment(id, fileName, content, type) ==
    [id |-> id, fileName |-> fileName, content |-> content, type |-> type]

\* Mutant: every type is counted with the length of the list.
CountTypes_Total(comments) ==
    [ty \in {comments[i].type : i \in 1..Len(comments)} |-> Len(comments)]

\* The reduce of lines 224-230: type -> number of comments of that type.
CountTypes(comments) ==
    [ty \in {comments[i].type : i \in 1..Len(comments)} |->
        Cardinality({i \in 1..Len(comments) : comments[i].type = ty})]

Response(comments, templateUsed, reviewMode, totalComments, commentTypes) ==
    [kind |-> "resolve",
     comments |-> comments,
     metadata |-> [templateUsed |-> templateUsed, reviewMode |-> reviewMode,
                   totalComments |-> totalComments, commentTypes |-> commentTypes],
     error |-> ErrorObj(0, "", <<>>)]

Rejection(err) ==
    [kind |-> "reject", comments |-> <<>>,
     metadata |-> [templateUsed |-> "none", reviewMode |-> "none",
                   totalComments |-> 0, commentTypes |-> <<>>],
     error |-> err]

Synthetic(id, content, type, templateUsed, reviewMode) ==
    Response(<<ReviewComment(id, Undefined, content, type)>>, templateUsed, reviewMode,
             1, (type :> 1))

\* getPromptForRequest with the template the controllers pass ('professional').
PromptTemplateName == "Professional Code Review"

\* Lines 215-221: the map over parsedResponse.comments.  Reading a member of
\* null is a TypeError; a primitive element has no members.
Member(e, field) == IF e.t = "comment" THEN e[field] ELSE Undefined

\* Mutant: the type of an element is kept as supplied.
ValidateComment_KeepType(e, index) ==
    ReviewComment(OrElse(Member(e, "id"), "comment_" \o ToString(index)),
                  Member(e, "fileName"),
                  OrElse(Member(e, "content"), "No content provided"),
                  Member(e, "type"))

ValidateComment(e, index) ==
    ReviewComment(OrElse(Member(e, "id"), "comment_" \o ToString(index)),
                  Member(e, "fileName"),
                  OrElse(Member(e, "content"), "No content provided"),
                  IF Member(e, "type") \in ValidTypes THEN Member(e, "type") ELSE "suggestion")

ValidateComments(items) ==
    IF \E i \in 1..Len(items) : items[i].t \in {"null", "undefined"}
    THEN Throw(ErrorObj(0, "", <<"Cannot read properties of null">>))
    ELSE Return([i \in 1..Len(items) |-> ValidateComment(items[i], i - 1)])

\* Lines 171-247: validation of the parsed response.  focus is
\* request.promptConfig.focus.
NormalizeParsed(parsed, focus) ==
    IF ~Truthy(parsed)
    THEN Rejection(ErrorObj(0, "", <<"No response data received">>))
    ELSE IF parsed.t # "obj" \/ ~Truthy(parsed.comments)
    THEN Synthetic("no_comments", "No review comments generated. Please try again.",
                   "info", PromptTemplateName, "fallback")
    ELSE IF parsed.comments.t # "list"
    THEN Synthetic("invalid_comments", "Invalid response format. Please try again.",
                   "warning", PromptTemplateName, "fallback")
    ELSE LET validated == ValidateComments(parsed.comments.items)
         IN IF validated.kind = "throw" THEN Rejection(validated.error)
            ELSE Response(validated.value, PromptTemplateName, OrElse(focus, "general"),
                          Len(validated.value), CountTypes(validated.value))

\* Outcomes of openai.chat.completions.create.
BackendThrow(err) == [kind |-> "throw", err |-> err, text |-> <<>>]
BackendEmpty == [kind |-> "empty", err |-> ErrorObj(0, "", <<>>), text |-> <<>>]
BackendContent(text) == [kind |-> "content", err |-> ErrorObj(0, "", <<>>), text |-> text]

\* Lines 138-247: the inner try block; a Rejection here is an exception
\* thrown inside it.
InnerTry(backend, focus) ==
    IF backend.kind = "throw" THEN Rejection(backend.err)
    ELSE IF backend.kind = "empty"
    THEN Rejection(ErrorObj(0, "", <<"No response from OpenAI">>))
    ELSE LET direct == JSONParse(backend.text)
             parsed == IF direct.kind = "return" THEN direct
                       ELSE extractJSONFromResponse(backend.text)
         IN IF parsed.kind = "throw"
            THEN Rejection(ErrorObj(0, "", <<"Invalid", "JSON", "format in response">>))
            ELSE NormalizeParsed(parsed.value, focus)

RateLimitBusy ==
    Synthetic("rate_limit_error",
              "AI service is currently busy. Please wait a moment and try again.",
              "warning", "error", "error")

\* Lines 248-272: the inner catch.
InnerCatch(apiError) ==
    IF apiError.status = 429 \/ apiError.code = "429"
    THEN RateLimitBusy
    ELSE Rejection(apiError)

\* Mutant: the outer catch rethrows what it does not recognise.
OuterCatch_Rethrow(error) ==
    IF error.code = "insufficient_quota"
    THEN Synthetic("quota_error", "OpenAI API quota exceeded.", "error", "error", "error")
    ELSE Rejection(error)

\* Lines 273-367: the outer catch.
OuterCatch(error) ==
    IF error.code = "insufficient_quota"
    THEN Synthetic("quota_error", "OpenAI API quota exceeded.", "error", "error", "error")
    ELSE IF error.status = 429
    THEN Synthetic("rate_limit_error",
                   "OpenAI API rate limit exceeded. Please wait a moment and try again.",
                   "warning", "error", "error")
    ELSE IF error.code = "invalid_api_key"
    THEN Synthetic("api_key_error", "Invalid OpenAI API key. Please check your configuration.",
                   "error", "error", "error")
    ELSE IF Includes(error.message, "JSON") \/ Includes(error.message, "Unexpected token")
    THEN Synthetic("json_parse_error",
                   "Received invalid response format from AI service. Please try again.",
                   "error", "error", "error")
    ELSE Synthetic("fallback_1",
                   "Unable to analyze code at the moment. Please try again later.",
                   "warning", "error", "error")

\* getOpenAIClient: throws when no client is cached and no API key is set.
ClientAvailable(cached, apiKey) == cached \/ apiKey

\* Mutant: no try/catch around the completion call.
reviewCodeWithAI_NoCatch(cached, apiKey, backend, focus) ==
    IF ~ClientAvailable(cached, apiKey)
    THEN Rejection(ErrorObj(0, "", <<"OPENAI_API_KEY environment variable is required">>))
    ELSE InnerTry(backend, focus)

\* reviewCodeWithAI: cached is the module-level openaiClient, apiKey whether
\* OPENAI_API_KEY is set, backend the outcome of the completion call (made
\* only when a client is available).
reviewCodeWithAI(cached, apiKey, backend, focus) ==
    IF ~ClientAvailable(cached, apiKey)
    THEN OuterCatch(ErrorObj(0, "", <<"OPENAI_API_KEY environment variable is required">>))
    ELSE LET inner == InnerTry(backend, focus)
         IN IF inner.kind = "resolve" THEN inner
            ELSE LET caught == InnerCatch(inner.error)
                 IN IF caught.kind = "resolve" THEN caught
                    ELSE OuterCatch(caught.error)

(***************************************************************************)
(* Controller helpers (githubController.ts)                                *)
(***************************************************************************)
\* String.prototype.trim on a diff (a sequence of characters).
IsSpace(c) == c \in {" ", "\n", "\t"}

RECURSIVE TrimStart(_)
TrimStart(s) == IF s # <<>> /\ IsSpace(Head(s)) THEN TrimStart(Tail(s)) ELSE s

RECURSIVE TrimEnd(_)
TrimEnd(s) ==
    IF s # <<>> /\ IsSpace(s[Len(s)]) THEN TrimEnd(SubSeq(s, 1, Len(s) - 1)) ELSE s

Trim(s) == TrimEnd(TrimStart(s))

\* Mutant: only the empty string counts as no diff.
NoDiff_EmptyOnly(diff) == diff = <<>>

\* !diff || diff.trim().length === 0
NoDiff(diff) == diff = <<>> \/ Len(Trim(diff)) = 0

\* comment.content && comment.content.trim().length > 0, for the comment
\* contents of the model.
BlankContents == {"", " ", "\n"}
HasContent(content) == content # Undefined /\ content \notin BlankContents

\* Mutant: the content test of line 178 left out.
RECURSIVE SelectComments_KeepAll(_, _)
SelectComments_KeepAll(aiComments, headSha) ==
    IF aiComments = <<>> THEN <<>>
    ELSE LET comment == Head(aiComments)
         IN <<[path |-> OrElse(comment.fileName, ""),
               position |-> 1,
               body |-> comment.content,
               commit_id |-> OrElse(headSha, "")]>>
            \o SelectComments_KeepAll(Tail(aiComments), headSha)

RECURSIVE SelectComments(_, _)
SelectComments(aiComments, headSha) ==
    IF aiComments = <<>> THEN <<>>
    ELSE LET comment == Head(aiComments)
             rest == SelectComments(Tail(aiComments), headSha)
         IN IF HasContent(comment.content)
            THEN <<[path |-> OrElse(comment.fileName, ""),
                    position |-> 1,
                    body |-> comment.content,
                    commit_id |-> OrElse(headSha, "")]>> \o rest
            ELSE rest

convertToGitHubComments(aiComments, diff, headSha) == SelectComments(aiComments, headSha)

\* Mutant: the filter of line 64 also lets "closed" through.
RelevantActions_WithClosed == {"opened", "synchronize", "reopened", "closed"}

RelevantActions == {"opened", "synchronize", "reopened"}

Json(status, body, details) == [status |-> status, body |-> body, details |-> details]

(***************************************************************************)
(* State                                                                   *)
(***************************************************************************)
NoRequest ==
    [kind |-> "none", signature |-> AbsentHeader, event |-> "none", action |-> "none",
     installation |-> 0, pr |-> "none", headSha |-> "none", complete |-> FALSE]

NoAI == Rejection(ErrorObj(0, "", <<>>))

\* lookup records what the installation lookup of a manual run met.
IdleRun ==
    [pc |-> "idle", req |-> NoRequest, calls |-> <<>>, resp |-> <<>>, outcome |-> "none",
     verified |-> Throw("none"), hasReviewed |-> FALSE, installationId |-> 0,
     headSha |-> "none", diff |-> <<>>, err |-> "none", lookup |-> "none",
     backend |-> "none",
     ai |-> NoAI,
     posted |-> FALSE, review |-> [count |-> 0, comments |-> <<>>]]

\* The harness applies one function of the program to one input; it is idle
\* in pipeline runs.
NoHarness ==
    [fn |-> "none", cached |-> FALSE, apiKey |-> FALSE, backend |-> BackendEmpty,
     focus |-> Undefined, out |-> NoAI, done |-> FALSE]

\* Process configuration: GITHUB_WEBHOOK_SECRET, GITHUB_BOT_USERNAME,
\* OPENAI_API_KEY, NODE_ENV.
InitProcess ==
    /\ runs = [r \in Runs |-> IdleRun]
    /\ reviews = [p \in PRs |-> IF p = "pr2" THEN <<HumanLogin>> ELSE <<>>]
    /\ env \in [webhookSecret : {"webhook-secret"}, botUsername : {BotLogin},
                apiKey : BOOLEAN, nodeEnv : {"production", "development"}]

Init ==
    /\ InitProcess
    /\ openaiClient = FALSE
    /\ harness = NoHarness

Payload(req) == [action |-> req.action, installation |-> req.installation, pr |-> req.pr]

\* Webhook deliveries: an arbitrary signature header on a pull_request
\* "opened" delivery, and correctly signed deliveries of every shape.
WebhookBodies ==
    [kind : {"webhook"}, signature : {AbsentHeader}, event : {"pull_request"},
     action : {"opened", "synchronize", "reopened", "closed"},
     installation : {0, InstallationId}, pr : PRs, headSha : {"sha1"}, complete : {TRUE}]

Signed(body, header) == [body EXCEPT !.signature = header]

\* A signature GitHub computed for another delivery of the same repository.
Replayed(body) ==
    Header(ExpectedSignature("webhook-secret", Payload([body EXCEPT !.action = "closed"])))

Processable == {x \in WebhookBodies : x.action = "opened" /\ x.installation = InstallationId}

WebhookRequests ==
    {Signed(b, h) : b \in Processable,
                    h \in UNION {SignatureHeaders(Payload(x)) \cup {Replayed(x)} :
                                    x \in {y \in Processable : y.pr = "pr1"}}}
    \cup {Signed(b, Header(ExpectedSignature("webhook-secret", Payload(b)))) :
            b \in WebhookBodies}
    \cup {[Signed(b, Header(ExpectedSignature("webhook-secret", Payload(b))))
             EXCEPT !.event = e] :
            b \in Processable, e \in {"pull_request_review", "push"}}

Finish(run, response, outcome) ==
    [run EXCEPT !.pc = "done", !.resp = Append(@, response), !.outcome = outcome]

\* Mutant: the 200 of lines 45-48 sent without looking at res.headersSent.
WebhookEpilogue_Unconditional(run) ==
    [run EXCEPT !.pc = "done", !.resp = Append(@, Json(200, "ok", ""))]

\* handleWebhook lines 45-48: the 200 sent when no response was sent yet.
WebhookEpilogue(run) ==
    IF run.resp = <<>>
    THEN [run EXCEPT !.pc = "done", !.resp = Append(@, Json(200, "ok", ""))]
    ELSE [run EXCEPT !.pc = "done"]

\* A return from handlePullRequestEvent that sent `response`.
ReturnWith(run, response, outcome) ==
    WebhookEpilogue([run EXCEPT !.resp = Append(@, response), !.outcome = outcome])

\* A return from handlePullRequestEvent that sent nothing.
ReturnSilently(run, outcome) == WebhookEpilogue([run EXCEPT !.outcome = outcome])

(***************************************************************************)
(* handleWebhook / handlePullRequestEvent                                  *)
(***************************************************************************)
\* Mutant: lines 69-73 (the installation check) left out.
PullRequestEventEntry_NoInstallationCheck(run) ==
    IF run.req.action \notin {"opened", "synchronize", "reopened"}
    THEN ReturnSilently(run, "Skipped(action-not-relevant)")
    ELSE [run EXCEPT !.pc = "hasBotReviewed", !.installationId = run.req.installation]

\* handlePullRequestEvent lines 61-78: up to the await of hasBotReviewed.
PullRequestEventEntry(run) ==
    IF run.req.action \notin RelevantActions
    THEN ReturnSilently(run, "Skipped(action-not-relevant)")
    ELSE IF run.req.installation = 0
    THEN ReturnWith(run, Json(400, "No installation ID found in webhook payload", ""),
                    "Failed(missing-installation)")
    ELSE [run EXCEPT !.pc = "hasBotReviewed", !.installationId = run.req.installation]

\* handleWebhook lines 19-53, for a delivery req.
WebhookEntry(run, req, webhookSecret) ==
    LET v == verifyWebhookSignature(Payload(req), req.signature, webhookSecret)
        base == [run EXCEPT !.req = req, !.verified = v]
    IN IF v.kind = "throw"
       THEN Finish(base, Json(500, "Internal server error", ""), "Failed(internal)")
       ELSE IF ~v.value
       THEN Finish(base, Json(401, "Invalid signature", ""), "Unauthorized")
       ELSE IF req.event = "pull_request"
       THEN PullRequestEventEntry(base)
       ELSE WebhookEpilogue([base EXCEPT !.outcome = "Ignored(event)"])

HandleWebhook(r) ==
    /\ runs[r].pc = "idle"
    /\ \E req \in WebhookRequests :
          runs' = [runs EXCEPT ![r] = WebhookEntry(runs[r], req, env.webhookSecret)]
    /\ UNCHANGED <<reviews, openaiClient, env, harness>>

\* Mutant: the early return of lines 83-87 left out.
AfterHasBotReviewed_NoReturn(run, res) ==
    [run EXCEPT !.calls = @ \o res.calls, !.hasReviewed = res.value,
                !.pc = "getPRDiff", !.headSha = run.req.headSha]

\* Lines 80-90: the duplicate check and what follows its result.
AfterHasBotReviewed(run, res) ==
    LET logged == [run EXCEPT !.calls = @ \o res.calls, !.hasReviewed = res.value]
    IN IF res.value
       THEN ReturnWith(logged, Json(200, "Bot has already reviewed this PR", ""),
                       "Skipped(already-reviewed)")
       ELSE [logged EXCEPT !.pc = "getPRDiff", !.headSha = run.req.headSha]

\* Mutant: the duplicate check lists the reviews of any pull request of the
\* repository.
HasBotReviewedStep_AnyPullRequest(r) ==
    /\ runs[r].pc = "hasBotReviewed"
    /\ \E tok \in TokenOutcomes, p \in PRs :
          runs' = [runs EXCEPT ![r] =
                     AfterHasBotReviewed(runs[r],
                                         hasBotReviewed(tok, reviews[p], env.botUsername))]
    /\ UNCHANGED <<reviews, openaiClient, env, harness>>

HasBotReviewedStep(r) ==
    /\ runs[r].pc = "hasBotReviewed"
    /\ \E tok \in TokenOutcomes, listing \in {<<"fail">>, reviews[runs[r].req.pr]} :
          runs' = [runs EXCEPT ![r] =
                     AfterHasBotReviewed(runs[r],
                                         hasBotReviewed(tok, listing, env.botUsername))]
    /\ UNCHANGED <<reviews, openaiClient, env, harness>>

\* Mutant: a failed diff fetch treated as an empty diff.
AfterGetPRDiff_FailureAsEmpty(run, res) ==
    LET logged == [run EXCEPT !.calls = @ \o res.calls, !.err = res.error]
    IN IF NoDiff(res.value)
       THEN ReturnWith([logged EXCEPT !.diff = res.value],
                       Json(404, "No diff found for this PR", ""), "Skipped(no-diff)")
       ELSE [logged EXCEPT !.pc = "reviewCodeWithAI", !.diff = res.value]

\* Lines 92-105: the diff fetch.
AfterGetPRDiff(run, res) ==
    LET logged == [run EXCEPT !.calls = @ \o res.calls, !.err = res.error]
    IN IF res.kind = "throw"
       THEN ReturnWith(logged, Json(500, "Failed to fetch PR diff", res.error),
                       "Failed(diff-fetch)")
       ELSE IF NoDiff(res.value)
       THEN ReturnWith([logged EXCEPT !.diff = res.value],
                       Json(404, "No diff found for this PR", ""), "Skipped(no-diff)")
       ELSE [logged EXCEPT !.pc = "reviewCodeWithAI", !.diff = res.value]

Diffs == {<<>>, <<" ", "\n">>, <<"+", " ", "a">>}

GetPRDiffStep(r) ==
    /\ runs[r].pc = "getPRDiff"
    /\ runs[r].req.kind = "webhook"
    /\ \E tok \in TokenOutcomes, api \in {<<"fail">>} \cup Diffs :
          runs' = [runs EXCEPT ![r] = AfterGetPRDiff(runs[r], getPRDiff(tok, api))]
    /\ UNCHANGED <<reviews, openaiClient, env, harness>>

\* Outcomes of the completion call explored in pipeline runs.
BackendErrors ==
    { ErrorObj(429, "rate_limit_exceeded", <<"Rate limit reached">>),
      ErrorObj(500, "", <<"Internal server error">>) }

BackendTexts ==
    { <<"{", "m:info", "}">>,
      <<"{", "m:empty", "}">>,
      <<"{", "m:blank", "}">> }

BackendOutcomes ==
    {BackendThrow(e) : e \in BackendErrors} \cup {BackendContent(t) : t \in BackendTexts}

BackendTag(backend) ==
    IF backend.kind = "throw"
    THEN (IF backend.err.status = 429 THEN "throw429" ELSE "throw")
    ELSE backend.kind

\* The call recorded for reviewCodeWithAI: the completion request is sent
\* only when getOpenAIClient returned a client.
AICalls(cached, apiKey) ==
    IF ClientAvailable(cached, apiKey) THEN <<"chat.completions.create">> ELSE <<>>

\* Lines 107-131: the AI stage and the comment mapping.
AfterReviewCodeWithAI(run, aiResponse, calls, tag) ==
    LET logged == [run EXCEPT !.calls = @ \o calls, !.ai = aiResponse, !.backend = tag]
    IN IF aiResponse.kind = "reject"
       THEN ReturnWith(logged, Json(500, "AI review failed", aiResponse.error.message),
                       "Failed(ai-review)")
       ELSE IF Len(aiResponse.comments) = 0
       THEN ReturnWith(logged, Json(200, "No AI comments generated for this PR", ""),
                       "Skipped(no-comments)")
       ELSE [logged EXCEPT
               !.pc = "postReviewComments",
               !.review = [count |-> Len(aiResponse.comments),
                           comments |-> convertToGitHubComments(aiResponse.comments,
                                                                run.diff, run.headSha)]]

ReviewCodeWithAIStep(r) ==
    /\ runs[r].pc = "reviewCodeWithAI"
    /\ runs[r].req.kind = "webhook"
    /\ \E backend \in BackendOutcomes :
          runs' = [runs EXCEPT ![r] =
                     AfterReviewCodeWithAI(
                         runs[r],
                         reviewCodeWithAI(openaiClient, env.apiKey, backend, "general"),
                         AICalls(openaiClient, env.apiKey),
                         IF ClientAvailable(openaiClient, env.apiKey)
                         THEN BackendTag(backend) ELSE "notCalled")]
    /\ openaiClient' = ClientAvailable(openaiClient, env.apiKey)
    /\ UNCHANGED <<reviews, env, harness>>

\* Mutant: a failed post is tried again.
AfterPostReviewComments_Retry(run, res) ==
    LET logged == [run EXCEPT !.calls = @ \o res.calls, !.err = res.error]
    IN IF res.kind = "throw"
       THEN logged
       ELSE ReturnWith([logged EXCEPT !.posted = TRUE],
                       Json(200, "Successfully posted comments", ""), "Posted")

\* Mutant: the catch of lines 148-152 left out of the answer.
AfterPostReviewComments_AlwaysSuccess(run, res) ==
    LET logged == [run EXCEPT !.calls = @ \o res.calls, !.err = res.error]
    IN ReturnWith([logged EXCEPT !.posted = res.kind = "return"],
                  Json(200, "Successfully posted comments", ""), "Posted")

\* Lines 133-152: the review post.
AfterPostReviewComments(run, res) ==
    LET logged == [run EXCEPT !.calls = @ \o res.calls, !.err = res.error]
    IN IF res.kind = "throw"
       THEN ReturnWith(logged, Json(500, "Failed to post review comments", res.error),
                       "Failed(post-review)")
       ELSE ReturnWith([logged EXCEPT !.posted = TRUE],
                       Json(200, "Successfully posted comments", ""), "Posted")

PostReviewStep(r) ==
    /\ runs[r].pc = "postReviewComments"
    /\ runs[r].req.kind = "webhook"
    /\ \E tok \in TokenOutcomes, api \in {"ok", "fail"} :
          LET res == postReviewComments(tok, api)
          IN /\ runs' = [runs EXCEPT ![r] = AfterPostReviewComments(runs[r], res)]
             /\ reviews' = IF res.kind = "return"
                           THEN [reviews EXCEPT ![runs[r].req.pr] = Append(@, BotLogin)]
                           ELSE reviews
    /\ UNCHANGED <<openaiClient, env, harness>>

(***************************************************************************)
(* manualReview                                                            *)
(***************************************************************************)
\* Manual-trigger bodies: {owner, repo, pullNumber}, complete or not.
ManualRequests ==
    [kind : {"manual"}, signature : {AbsentHeader}, event : {"none"}, action : {"none"},
     installation : {0}, pr : PRs, headSha : {"none"}, complete : BOOLEAN]

\* Lines 194-208: up to the await of getRepositoryInstallation.
ManualEntry(run, req) ==
    LET base == [run EXCEPT !.req = req]
    IN IF ~req.complete
       THEN Finish(base, Json(400, "Missing required fields: owner, repo, pullNumber", ""),
                   "Failed(missing-fields)")
       ELSE [base EXCEPT !.pc = "getRepositoryInstallation"]

ManualReview(r) ==
    /\ runs[r].pc = "idle"
    /\ \E req \in ManualRequests :
          runs' = [runs EXCEPT ![r] = ManualEntry(runs[r], req)]
    /\ UNCHANGED <<reviews, openaiClient, env, harness>>

\* Lines 206-219.
AfterGetRepositoryInstallation(run, res) ==
    LET logged == [run EXCEPT !.calls = @ \o res.calls, !.err = res.error]
    IN IF res.kind = "throw"
       THEN Finish(logged, Json(500, "Failed to get installation ID", res.error),
                   "Failed(installation-lookup)")
       ELSE IF res.value = 0
       THEN Finish(logged, Json(404, "GitHub App not installed on this repository", ""),
                   "NotFound(not-installed)")
       ELSE [logged EXCEPT !.pc = "getPRDetails", !.installationId = res.value]

ManualResolveInstallationStep(r) ==
    /\ runs[r].pc = "getRepositoryInstallation"
    /\ \E api \in {"installed", "notInstalled", "fail", "signingError"} :
          runs' = [runs EXCEPT ![r] =
                     AfterGetRepositoryInstallation([runs[r] EXCEPT !.lookup = api],
                                                    getRepositoryInstallation(api))]
    /\ UNCHANGED <<reviews, openaiClient, env, harness>>

\* Lines 221-232.
AfterGetPRDetails(run, res) ==
    LET logged == [run EXCEPT !.calls = @ \o res.calls, !.err = res.error]
    IN IF res.kind = "throw"
       THEN Finish(logged, Json(500, "Failed to fetch PR details", res.error),
                   "Failed(pr-details)")
       ELSE [logged EXCEPT !.pc = "getPRDiff", !.headSha = res.value]

ManualGetPRDetailsStep(r) ==
    /\ runs[r].pc = "getPRDetails"
    /\ \E tok \in TokenOutcomes, api \in {"fail", "notFound", "sha1"} :
          runs' = [runs EXCEPT ![r] = AfterGetPRDetails(runs[r], getPRDetails(tok, api))]
    /\ UNCHANGED <<reviews, openaiClient, env, harness>>

\* Lines 234-249.
ManualAfterGetPRDiff(run, res) ==
    LET logged == [run EXCEPT !.calls = @ \o res.calls, !.err = res.error]
    IN IF res.kind = "throw"
       THEN Finish(logged, Json(500, "Failed to fetch PR diff", res.error),
                   "Failed(diff-fetch)")
       ELSE IF NoDiff(res.value)
       THEN Finish([logged EXCEPT !.diff = res.value],
                   Json(404, "No diff found for this PR", ""), "Skipped(no-diff)")
       ELSE [logged EXCEPT !.pc = "reviewCodeWithAI", !.diff = res.value]

ManualGetPRDiffStep(r) ==
    /\ runs[r].pc = "getPRDiff"
    /\ runs[r].req.kind = "manual"
    /\ \E tok \in TokenOutcomes, api \in {<<"fail">>} \cup Diffs :
          runs' = [runs EXCEPT ![r] = ManualAfterGetPRDiff(runs[r], getPRDiff(tok, api))]
    /\ UNCHANGED <<reviews, openaiClient, env, harness>>

\* Lines 251-279: the AI stage; the review body is built from all comments
\* and no wire comments are attached.
ManualAfterReviewCodeWithAI(run, aiResponse, calls, tag) ==
    LET logged == [run EXCEPT !.calls = @ \o calls, !.ai = aiResponse, !.backend = tag]
    IN IF aiResponse.kind = "reject"
       THEN Finish(logged, Json(500, "AI review failed", aiResponse.error.message),
                   "Failed(ai-review)")
       ELSE [logged EXCEPT
               !.pc = "postReviewComments",
               !.review = [count |-> Len(aiResponse.comments), comments |-> <<>>]]

ManualReviewCodeWithAIStep(r) ==
    /\ runs[r].pc = "reviewCodeWithAI"
    /\ runs[r].req.kind = "manual"
    /\ \E backend \in BackendOutcomes :
          runs' = [runs EXCEPT ![r] =
                     ManualAfterReviewCodeWithAI(
                         runs[r],
                         reviewCodeWithAI(openaiClient, env.apiKey, backend, "general"),
                         AICalls(openaiClient, env.apiKey),
                         IF ClientAvailable(openaiClient, env.apiKey)
                         THEN BackendTag(backend) ELSE "notCalled")]
    /\ openaiClient' = ClientAvailable(openaiClient, env.apiKey)
    /\ UNCHANGED <<reviews, env, harness>>

\* Lines 280-303.
ManualAfterPostReviewComments(run, res) ==
    LET logged == [run EXCEPT !.calls = @ \o res.calls, !.err = res.error]
    IN IF res.kind = "throw"
       THEN Finish(logged, Json(500, "Failed to post review comments", res.error),
                   "Failed(post-review)")
       ELSE Finish([logged EXCEPT !.posted = TRUE],
                   Json(200, "Successfully posted general review comment", ""), "Posted")

ManualPostReviewStep(r) ==
    /\ runs[r].pc = "postReviewComments"
    /\ runs[r].req.kind = "manual"
    /\ \E tok \in TokenOutcomes, api \in {"ok", "fail"} :
          LET res == postReviewComments(tok, api)
          IN /\ runs' = [runs EXCEPT ![r] = ManualAfterPostReviewComments(runs[r], res)]
             /\ reviews' = IF res.kind = "return"
                           THEN [reviews EXCEPT ![runs[r].req.pr] = Append(@, BotLogin)]
                           ELSE reviews
    /\ UNCHANGED <<openaiClient, env, harness>>

(***************************************************************************)
(* reviewCode (POST /api/review)                                           *)
(***************************************************************************)
\* The diff of a request body is any JavaScript value.  A string is held as
\* runs of one character: 'a'.repeat(10001) is <<Run("a", 10001)>>.
Run(ch, n) == [ch |-> ch, n |-> n]
\* t is the typeof of the value ("null" for null); n is the number, 0
\* otherwise; runs the string, <<>> otherwise.
JsValue(t, n, str) == [t |-> t, n |-> n, runs |-> str]
JsString(str) == JsValue("string", 0, str)

\* !v
Falsy(v) ==
    \/ v.t \in {"undefined", "null"}
    \/ v.t = "number" /\ v.n = 0
    \/ v.t = "string" /\ v.runs = <<>>

\* String.prototype.length
RECURSIVE StrLength(_)
StrLength(str) == IF str = <<>> THEN 0 ELSE Head(str).n + StrLength(Tail(str))

\* String.prototype.trim
RECURSIVE TrimRunsStart(_)
TrimRunsStart(str) ==
    IF str # <<>> /\ IsSpace(Head(str).ch) THEN TrimRunsStart(Tail(str)) ELSE str

RECURSIVE TrimRunsEnd(_)
TrimRunsEnd(str) ==
    IF str # <<>> /\ IsSpace(str[Len(str)].ch)
    THEN TrimRunsEnd(SubSeq(str, 1, Len(str) - 1)) ELSE str

TrimRuns(str) == TrimRunsEnd(TrimRunsStart(str))

\* Mutant: a string of whitespace passes the validation.
InvalidDiff_NoTrim(diff) == Falsy(diff) \/ diff.t # "string"

\* Line 14: !diff || typeof diff !== 'string' || diff.trim().length === 0
InvalidDiff(diff) ==
    Falsy(diff) \/ diff.t # "string" \/ StrLength(TrimRuns(diff.runs)) = 0

MaxDiffLength == 8000

\* Mutant: the limit the size check had before it was reduced.
TooLarge_TenThousand(diff) == StrLength(diff.runs) > 10000

\* Line 21: diff.length > 8000
TooLarge(diff) == StrLength(diff.runs) > MaxDiffLength

NoPromptConfig ==
    [present |-> FALSE, template |-> Undefined, tone |-> Undefined, focus |-> Undefined,
     detail |-> Undefined]

PromptConfig(template, tone, focus, detail) ==
    [present |-> TRUE, template |-> template, tone |-> tone, focus |-> focus,
     detail |-> detail]

\* The values lines 35, 41 and 47 allow.
Allowed ==
    [tone |-> {"professional", "friendly", "strict"},
     focus |-> {"general", "security", "performance", "clean-code"},
     detail |-> {"brief", "detailed", "comprehensive"}]

\* Lines 34-52: the error of the first prompt setting that is not allowed,
\* "" when there is none.
PromptConfigError(promptConfig) ==
    LET \* value && !allowed.includes(value)
        SetButNot(value, allowed) ==
            value # Undefined /\ value # "" /\ value \notin allowed
    IN
    IF ~promptConfig.present THEN ""
    ELSE IF SetButNot(promptConfig.tone, Allowed.tone)
    THEN "Invalid tone. Must be one of: professional, friendly, strict"
    ELSE IF SetButNot(promptConfig.focus, Allowed.focus)
    THEN "Invalid focus. Must be one of: general, security, performance, clean-code"
    ELSE IF SetButNot(promptConfig.detail, Allowed.detail)
    THEN "Invalid detail level. Must be one of: brief, detailed, comprehensive"
    ELSE ""

\* A response of reviewCode: statusCalled tells whether res.status was
\* called; result is the body of res.json(result).
ReviewReply(status, statusCalled, error, message, result) ==
    [status |-> status, statusCalled |-> statusCalled, error |-> error,
     message |-> message, result |-> result]

\* Mutant: the diff handed to the service as it came.
ReviewRequest_Untrimmed(diff, promptConfig) ==
    [diff |-> diff.runs, promptConfig |-> promptConfig]

\* Lines 55-58: the argument of reviewCodeWithAI.
ReviewRequest(diff, promptConfig) ==
    [diff |-> TrimRuns(diff.runs), promptConfig |-> promptConfig]

\* reviewCode for a request body; cached, apiKey and backend as for
\* reviewCodeWithAI.  resp are the responses sent, requests the arguments of
\* the invocations of reviewCodeWithAI and results what they returned, calls
\* the external calls, client the module-level openaiClient afterwards.
reviewCode(body, cached, apiKey, backend) ==
    LET rejected(error) ==
            [resp |-> <<ReviewReply(400, TRUE, error, "", NoAI)>>,
             requests |-> <<>>, results |-> <<>>, calls |-> <<>>, client |-> cached]
    IN IF InvalidDiff(body.diff)
       THEN rejected("Invalid input: diff is required and must be a non-empty string")
       ELSE IF TooLarge(body.diff)
       THEN rejected("Diff is too large. Please provide a smaller code diff (max 8,000 characters).")
       ELSE IF PromptConfigError(body.promptConfig) # ""
       THEN rejected(PromptConfigError(body.promptConfig))
       ELSE LET result == reviewCodeWithAI(cached, apiKey, backend, body.promptConfig.focus)
            IN [resp |-> <<IF result.kind = "reject"
                           THEN ReviewReply(500, TRUE, "Internal server error",
                                            "Failed to review code", NoAI)
                           ELSE ReviewReply(200, FALSE, "", "", result)>>,
                requests |-> <<ReviewRequest(body.diff, body.promptConfig)>>,
                results |-> <<result>>,
                calls |-> AICalls(cached, apiKey),
                client |-> ClientAvailable(cached, apiKey)]

\* Request bodies of /api/review explored in pipeline runs.
SampleReviewBodies ==
    { [diff |-> JsValue("undefined", 0, <<>>), promptConfig |-> NoPromptConfig],
      [diff |-> JsString(<<Run("a", 8001)>>), promptConfig |-> NoPromptConfig],
      [diff |-> JsString(<<Run("a", 10)>>),
       promptConfig |-> PromptConfig(Undefined, "rude", Undefined, Undefined)],
      [diff |-> JsString(<<Run(" ", 2), Run("a", 10), Run("\n", 1)>>),
       promptConfig |-> NoPromptConfig] }

\* The run of a /api/review request, as the pipeline runs are recorded.
ReviewRun(run, out) ==
    LET reply == out.resp[1]
        base == [run EXCEPT !.req = [NoRequest EXCEPT !.kind = "review"],
                            !.calls = @ \o out.calls,
                            !.ai = reply.result]
    IN IF reply.status = 200
       THEN Finish(base, Json(200, "result", ""), "Reviewed")
       ELSE IF reply.status = 400
       THEN Finish(base, Json(400, reply.error, ""), "Failed(invalid-input)")
       ELSE Finish(base, Json(500, reply.error, ""), "Failed(internal)")

ReviewCode(r) ==
    /\ runs[r].pc = "idle"
    /\ \E body \in SampleReviewBodies, backend \in BackendOutcomes :
          LET out == reviewCode(body, openaiClient, env.apiKey, backend)
          IN /\ runs' = [runs EXCEPT ![r] = ReviewRun(runs[r], out)]
             /\ openaiClient' = out.client
    /\ UNCHANGED <<reviews, env, harness>>

Next ==
    \E r \in Runs :
        \/ HandleWebhook(r)
        \/ HasBotReviewedStep(r)
        \/ GetPRDiffStep(r)
        \/ ReviewCodeWithAIStep(r)
        \/ PostReviewStep(r)
        \/ ManualReview(r)
        \/ ManualResolveInstallationStep(r)
        \/ ManualGetPRDetailsStep(r)
        \/ ManualGetPRDiffStep(r)
        \/ ManualReviewCodeWithAIStep(r)
        \/ ManualPostReviewStep(r)
        \/ ReviewCode(r)

Spec == Init /\ [][Next]_vars

\* Every external call returns or throws, and every handler that can take a
\* step takes it.
FairSpec == Spec /\ WF_vars(Next)

(***************************************************************************)
(* reviewCodeWithAI applied to every outcome of the completion call        *)
(***************************************************************************)
AllBackendErrors ==
    { ErrorObj(429, "rate_limit_exceeded", <<"Rate limit reached">>),
      ErrorObj(429, "insufficient_quota", <<"You exceeded your current quota">>),
      ErrorObj(0, "insufficient_quota", <<"You exceeded your current quota">>),
      ErrorObj(0, "429", <<"Too many requests">>),
      ErrorObj(401, "invalid_api_key", <<"Incorrect API key provided">>),
      ErrorObj(500, "", <<"Internal server error">>),
      ErrorObj(0, "ECONNRESET", <<"Connection error">>),
      ErrorObj(0, "", <<"Unexpected token", "in", "JSON">>) }

\* JSON texts, and the same wrapped in prose, cut short, or followed by
\* text that holds a brace.
JsonTexts ==
    {<<"{", m, "}">> : m \in MemberTokens} \cup {<<"{", "}">>}
    \cup {<<a>> : a \in AtomTokens}

AllBackendTexts ==
    {pre \o t \o post : pre \in {<<>>, <<"prose">>}, t \in JsonTexts,
                        post \in {<<>>, <<"prose">>, <<"prose", "}">>, <<"{", "prose">>}}
    \cup {<<"prose">>, <<"{", "m:one">>, <<"m:one", "}">>, <<"}", "prose", "{">>}

AllBackendOutcomes ==
    {BackendThrow(e) : e \in AllBackendErrors} \cup {BackendEmpty}
    \cup {BackendContent(t) : t \in AllBackendTexts}

InitAI ==
    /\ InitProcess
    /\ \E cached \in BOOLEAN, backend \in AllBackendOutcomes, focus \in {Undefined, "security"} :
          harness = [fn |-> "reviewCodeWithAI", cached |-> cached, apiKey |-> env.apiKey,
                     backend |-> backend, focus |-> focus, out |-> NoAI, done |-> FALSE]
    /\ openaiClient = harness.cached

ApplyReviewCodeWithAI ==
    /\ harness.fn = "reviewCodeWithAI"
    /\ ~harness.done
    /\ harness' = [harness EXCEPT
                     !.out = reviewCodeWithAI(openaiClient, env.apiKey,
                                              harness.backend, harness.focus),
                     !.done = TRUE]
    /\ openaiClient' = ClientAvailable(openaiClient, env.apiKey)
    /\ UNCHANGED <<runs, reviews, env>>

NextAI == ApplyReviewCodeWithAI

SpecAI == InitAI /\ [][NextAI]_vars

(***************************************************************************)
(* reviewCode applied to every shape of request body                       *)
(***************************************************************************)
ReviewDiffs ==
    {JsValue("undefined", 0, <<>>), JsValue("null", 0, <<>>), JsValue("number", 0, <<>>), JsValue("number", 123, <<>>), JsValue("object", 0, <<>>), JsString(<<>>),
     JsString(<<Run(" ", 3)>>), JsString(<<Run("\n", 1), Run(" ", 2)>>)}
    \cup {JsString(lead \o <<Run("a", n)>> \o trail) :
            lead \in {<<>>, <<Run(" ", 2)>>}, trail \in {<<>>, <<Run("\n", 1)>>},
            n \in {1, 4000, 7997, 7998, 7999, 8000, 8001, 9999, 10000, 10001}}

PromptConfigs ==
    { NoPromptConfig,
      PromptConfig("professional", Undefined, Undefined, Undefined),
      PromptConfig("professional", "strict", "security", "brief"),
      PromptConfig(Undefined, "rude", Undefined, Undefined),
      PromptConfig("professional", "friendly", "style", Undefined),
      PromptConfig("professional", Undefined, "general", "terse") }

ReviewBodies == [diff : ReviewDiffs, promptConfig : PromptConfigs]

InitReview ==
    /\ InitProcess
    /\ openaiClient \in BOOLEAN
    /\ \E body \in ReviewBodies, backend \in BackendOutcomes :
          harness = [fn |-> "reviewCode", body |-> body, backend |-> backend,
                     resp |-> <<>>, requests |-> <<>>, results |-> <<>>, calls |-> <<>>,
                     done |-> FALSE]

ApplyReviewCode ==
    /\ harness.fn = "reviewCode"
    /\ ~harness.done
    /\ LET out == reviewCode(harness.body, openaiClient, env.apiKey, harness.backend)
       IN /\ harness' = [harness EXCEPT !.resp = out.resp, !.requests = out.requests,
                                        !.results = out.results, !.calls = out.calls,
                                        !.done = TRUE]
          /\ openaiClient' = out.client
    /\ UNCHANGED <<runs, reviews, env>>

NextReview == ApplyReviewCode

SpecReview == InitReview /\ [][NextReview]_vars

(***************************************************************************)
(* Properties                                                              *)
(***************************************************************************)
Called(run, name) == \E i \in 1..Len(run.calls) : run.calls[i] = name
TimesCalled(run, name) == Cardinality({i \in 1..Len(run.calls) : run.calls[i] = name})
IsWebhook(run) == run.req.kind = "webhook"
SignatureVerified(run) == run.verified.kind = "return" /\ run.verified.value
Status(run) == run.resp[1].status

\* C1: in a webhook run no pipeline call is made unless the signature
\* verified, and a delivery whose signature does not verify is answered 401
\* and ends there.
C1_SignatureGate ==
    \A r \in Runs :
        IsWebhook(runs[r]) =>
            /\ (runs[r].calls # <<>> => SignatureVerified(runs[r]))
            /\ (~SignatureVerified(runs[r]) =>
                    /\ runs[r].pc = "done"
                    /\ runs[r].calls = <<>>
                    /\ runs[r].resp = <<Json(401, "Invalid signature", "")>>)

\* C2: createReview succeeds at most once per pull request over all
\* webhook-triggered runs, whatever the interleaving.
C2_AtMostOneAutomaticReview ==
    \A p \in PRs :
        Cardinality({r \in Runs : IsWebhook(runs[r]) /\ runs[r].req.pr = p
                                    /\ runs[r].posted}) <= 1

\* C3: a webhook run whose hasBotReviewed returned true ends in
\* Skipped(already-reviewed) and never calls getDiff, the AI backend or
\* createReview.
C3_AlreadyReviewedSkips ==
    \A r \in Runs :
        IsWebhook(runs[r]) /\ runs[r].hasReviewed =>
            /\ runs[r].pc = "done"
            /\ runs[r].outcome = "Skipped(already-reviewed)"
            /\ runs[r].resp = <<Json(200, "Bot has already reviewed this PR", "")>>
            /\ ~Called(runs[r], "pulls.get(diff)")
            /\ ~Called(runs[r], "chat.completions.create")
            /\ ~Called(runs[r], "pulls.createReview")
            /\ ~runs[r].posted

C3_Witness ==
    \E r \in Runs :
        IsWebhook(runs[r]) /\ runs[r].hasReviewed /\ runs[r].pc = "done"
        /\ Called(runs[r], "pulls.listReviews")

\* C4: verifyWebhookSignature returns a boolean for every header (never
\* throws), true exactly when the header equals "sha256=" + HMAC(secret, payload).
C4_VerifyTotalAndExact ==
    \A r \in Runs :
        IsWebhook(runs[r]) =>
            /\ runs[r].verified.kind = "return"
            /\ runs[r].verified.value =
                  (/\ runs[r].req.signature.defined
                   /\ runs[r].req.signature.str =
                         ExpectedSignature(env.webhookSecret, Payload(runs[r].req)))

\* C5: a verified pull_request delivery with an action other than opened,
\* synchronize, reopened ends Skipped(action-not-relevant) with a 200 and no
\* network call; only those three actions reach the duplicate check.
C5_ActionFilter ==
    \A r \in Runs :
        IsWebhook(runs[r]) =>
            /\ (/\ SignatureVerified(runs[r])
                /\ runs[r].req.event = "pull_request"
                /\ runs[r].req.action \notin {"opened", "synchronize", "reopened"}
                =>
                /\ runs[r].pc = "done"
                /\ runs[r].outcome = "Skipped(action-not-relevant)"
                /\ runs[r].resp = <<Json(200, "ok", "")>>
                /\ runs[r].calls = <<>>)
            /\ (runs[r].pc = "hasBotReviewed" \/ runs[r].calls # <<>> =>
                    runs[r].req.action \in {"opened", "synchronize", "reopened"})

C5_Witness ==
    \E r \in Runs :
        /\ IsWebhook(runs[r]) /\ SignatureVerified(runs[r])
        /\ runs[r].req.event = "pull_request" /\ runs[r].req.action = "closed"
        /\ runs[r].pc = "done"

\* C6: a pull_request delivery with a relevant action and no installation id
\* ends Failed(missing-installation) with an error response and no call.
C6_MissingInstallation ==
    \A r \in Runs :
        /\ IsWebhook(runs[r]) /\ SignatureVerified(runs[r])
        /\ runs[r].req.event = "pull_request"
        /\ runs[r].req.action \in {"opened", "synchronize", "reopened"}
        /\ runs[r].req.installation = 0
        =>
        /\ runs[r].pc = "done"
        /\ runs[r].outcome = "Failed(missing-installation)"
        /\ runs[r].resp = <<Json(400, "No installation ID found in webhook payload", "")>>
        /\ runs[r].calls = <<>>
        /\ ~runs[r].posted

C6_Witness ==
    \E r \in Runs :
        /\ IsWebhook(runs[r]) /\ SignatureVerified(runs[r])
        /\ runs[r].req.event = "pull_request" /\ runs[r].req.action = "synchronize"
        /\ runs[r].req.installation = 0 /\ runs[r].pc = "done"

\* The stage calls of a run, in the order made.
StageCalls == <<"pulls.listReviews", "pulls.get(diff)", "chat.completions.create",
                "pulls.createReview">>
StageIndex(name) == CHOOSE k \in 1..Len(StageCalls) : StageCalls[k] = name
IsStageCall(name) == \E k \in 1..Len(StageCalls) : StageCalls[k] = name

\* C7: the stage calls of a run happen in the order duplicate check, diff
\* fetch, AI completion, review post, and createReview is called only after
\* hasBotReviewed returned false (webhook runs), a non-blank diff and at
\* least one AI comment.
C7_StageOrdering ==
    \A r \in Runs :
        /\ \A i, j \in 1..Len(runs[r].calls) :
              i < j /\ IsStageCall(runs[r].calls[i]) /\ IsStageCall(runs[r].calls[j])
              => StageIndex(runs[r].calls[i]) < StageIndex(runs[r].calls[j])
        /\ (Called(runs[r], "pulls.createReview") =>
              /\ (IsWebhook(runs[r]) => ~runs[r].hasReviewed)
              /\ ~NoDiff(runs[r].diff)
              /\ runs[r].ai.kind = "resolve"
              /\ Len(runs[r].ai.comments) >= 1)

\* C8 (amended): in a webhook run whose completion call throws a 429, the AI
\* stage yields exactly one warning comment with reviewMode "error", one
\* mapped comment is handed to postReviewComments, and the run ends Posted
\* with a 200 when the post succeeds, Failed(post-review) with a 500 otherwise.
C8_RateLimitDegrades ==
    \A r \in Runs :
        IsWebhook(runs[r]) /\ runs[r].backend = "throw429" =>
            /\ runs[r].ai.kind = "resolve"
            /\ Len(runs[r].ai.comments) = 1
            /\ runs[r].ai.comments[1].type = "warning"
            /\ runs[r].ai.metadata.reviewMode = "error"
            /\ Len(runs[r].review.comments) = 1
            /\ runs[r].review.count = 1
            /\ runs[r].pc \in {"postReviewComments", "done"}
            /\ TimesCalled(runs[r], "pulls.createReview") <= 1
            /\ (runs[r].pc = "done" =>
                  IF runs[r].posted
                  THEN /\ runs[r].outcome = "Posted"
                       /\ TimesCalled(runs[r], "pulls.createReview") = 1
                       /\ Len(runs[r].resp) = 1 /\ Status(runs[r]) = 200
                  ELSE /\ runs[r].outcome = "Failed(post-review)"
                       /\ Len(runs[r].resp) = 1 /\ Status(runs[r]) = 500)

C8_Witness ==
    \E r \in Runs :
        /\ IsWebhook(runs[r]) /\ runs[r].backend = "throw429"
        /\ runs[r].pc = "done" /\ runs[r].posted

\* C8 as stated: such a run always ends Posted(1) with a success response.
C8_AlwaysPosted ==
    \A r \in Runs :
        IsWebhook(runs[r]) /\ runs[r].backend = "throw429" /\ runs[r].pc = "done" =>
            /\ runs[r].posted
            /\ runs[r].outcome = "Posted"
            /\ TimesCalled(runs[r], "pulls.createReview") = 1
            /\ Status(runs[r]) = 200

\* The raw text neither parses directly nor through its brace span.
Malformed(text) ==
    /\ JSONParse(text).kind = "throw"
    /\ ~HasBraceMatch(text) \/ JSONParse(BraceMatch(text)).kind = "throw"

IsErrorInput(h) ==
    \/ ~ClientAvailable(h.cached, h.apiKey)
    \/ h.backend.kind \in {"throw", "empty"}
    \/ h.backend.kind = "content" /\ Malformed(h.backend.text)

\* C9: every error kind of the completion backend (429, insufficient_quota,
\* invalid_api_key, malformed JSON, missing API key, empty completion, any
\* other error) becomes a result with exactly one synthetic comment and
\* reviewMode "error"; reviewCodeWithAI never rejects.
C9_ErrorsBecomeErrorResults ==
    harness.fn = "reviewCodeWithAI" /\ harness.done =>
        /\ harness.out.kind = "resolve"
        /\ (IsErrorInput(harness) =>
              /\ Len(harness.out.comments) = 1
              /\ harness.out.metadata.reviewMode = "error")

EmptyListText(text) ==
    \/ text = <<"{", "m:empty", "}">>
    \/ HasBraceMatch(text) /\ BraceMatch(text) = <<"{", "m:empty", "}">>

ReturnsEmptyListFor(h) ==
    /\ ClientAvailable(h.cached, h.apiKey)
    /\ h.backend.kind = "content"
    /\ EmptyListText(h.backend.text)

\* C11 (amended): reviewCodeWithAI never rejects, whatever the completion call
\* gives (a thrown error, no content, prose, truncated JSON, a JSON value that
\* is not an object), and it returns at least one comment except when the
\* completion is an object whose comments list is empty: then it returns the
\* empty list.
C11_TotalAndEmptyOnlyForEmptyList ==
    harness.done =>
        /\ harness.out.kind = "resolve"
        /\ Len(harness.out.comments) = harness.out.metadata.totalComments
        /\ (Len(harness.out.comments) = 0 <=> ReturnsEmptyListFor(harness))

C11_Witness ==
    /\ harness.done
    /\ harness.backend.kind = "content"
    /\ harness.backend.text = <<"prose", "{", "m:empty", "}", "prose">>
    /\ harness.out.kind = "resolve"
    /\ harness.out.comments = <<>>

\* C11 as stated: the AI stage never raises and never returns an empty list.
C11_NeverEmpty ==
    harness.done =>
        /\ harness.out.kind = "resolve"
        /\ Len(harness.out.comments) >= 1

ZeroComments(run) == run.ai.kind = "resolve" /\ Len(run.ai.comments) = 0

\* C12: a run (webhook or manual) whose AI result holds zero comments ends
\* in Skipped(no-comments) and never calls createReview.
C12_ZeroCommentsSkip ==
    \A r \in Runs :
        ZeroComments(runs[r]) =>
            /\ runs[r].pc \in {"postReviewComments", "done"}
            /\ runs[r].pc = "done" => runs[r].outcome = "Skipped(no-comments)"
            /\ ~Called(runs[r], "pulls.createReview")

\* The diff request of the run was sent and answered.
DiffReturned(run) ==
    /\ Called(run, "pulls.get(diff)")
    /\ run.pc # "getPRDiff"
    /\ run.outcome # "Failed(diff-fetch)"

Blank(diff) == \A i \in 1..Len(diff) : diff[i] \in {" ", "\n", "\t"}

\* C13: a run (webhook or manual) whose diff comes back empty or
\* whitespace-only ends with the no-diff answer (404 "No diff found for this
\* PR") and calls neither the completion backend nor createReview.
C13_NoDiffSkips ==
    \A r \in Runs :
        DiffReturned(runs[r]) /\ Blank(runs[r].diff) =>
            /\ runs[r].pc = "done"
            /\ runs[r].outcome = "Skipped(no-diff)"
            /\ runs[r].resp = <<Json(404, "No diff found for this PR", "")>>
            /\ ~Called(runs[r], "chat.completions.create")
            /\ ~Called(runs[r], "pulls.createReview")
            /\ runs[r].ai = NoAI

C13_Witness ==
    \E r, q \in Runs :
        /\ IsWebhook(runs[r]) /\ DiffReturned(runs[r]) /\ runs[r].diff = <<>>
        /\ runs[q].req.kind = "manual" /\ DiffReturned(runs[q])
        /\ runs[q].diff = <<" ", "\n">>
        /\ runs[r].outcome = "Skipped(no-diff)" /\ runs[q].outcome = "Skipped(no-diff)"

DiffFetchErrors ==
    {"Failed to fetch PR diff: HttpError",
     "Failed to fetch PR diff: Failed to get installation access token"}

\* C14: a run (webhook or manual) whose getPRDiff fails, in the REST call or
\* in the token exchange before it, ends in Failed(diff-fetch) with a 500
\* answer whose details are the error's message, and calls neither the
\* completion backend nor createReview.
C14_DiffFetchFailure ==
    \A r \in Runs :
        runs[r].err \in DiffFetchErrors =>
            /\ runs[r].pc = "done"
            /\ runs[r].outcome = "Failed(diff-fetch)"
            /\ runs[r].resp = <<Json(500, "Failed to fetch PR diff", runs[r].err)>>
            /\ ~Called(runs[r], "chat.completions.create")
            /\ ~Called(runs[r], "pulls.createReview")
            /\ runs[r].ai = NoAI

C14_Witness ==
    \E r, q \in Runs :
        /\ IsWebhook(runs[r])
        /\ runs[r].err = "Failed to fetch PR diff: Failed to get installation access token"
        /\ runs[r].outcome = "Failed(diff-fetch)"
        /\ runs[q].req.kind = "manual"
        /\ runs[q].err = "Failed to fetch PR diff: HttpError"
        /\ Called(runs[q], "pulls.get(diff)")
        /\ runs[q].outcome = "Failed(diff-fetch)"

PostReviewErrors ==
    {"Failed to post review comments: HttpError",
     "Failed to post review comments: Failed to get installation access token"}

\* C15: a run whose postReviewComments fails ends in Failed(post-review)
\* with a 500 answer whose details are the error's message; it sends no
\* other answer and never reports Posted.
C15_PostFailure ==
    \A r \in Runs :
        runs[r].err \in PostReviewErrors =>
            /\ runs[r].pc = "done"
            /\ runs[r].outcome = "Failed(post-review)"
            /\ runs[r].resp = <<Json(500, "Failed to post review comments", runs[r].err)>>
            /\ ~runs[r].posted

C15_Witness ==
    \E r, q \in Runs :
        /\ IsWebhook(runs[r])
        /\ runs[r].err = "Failed to post review comments: HttpError"
        /\ Called(runs[r], "pulls.createReview")
        /\ runs[r].outcome = "Failed(post-review)"
        /\ runs[q].req.kind = "manual"
        /\ runs[q].err = "Failed to post review comments: HttpError"
        /\ Called(runs[q], "pulls.createReview")
        /\ runs[q].outcome = "Failed(post-review)"

\* An installation-token exchange of the run failed: its call is in the log
\* and the REST call it was made for is not.
TokenExchangeFailedAt(run, i) ==
    /\ run.calls[i] = "apps.createInstallationAccessToken"
    /\ \/ i = Len(run.calls)
       \/ run.calls[i + 1] \notin {"pulls.listReviews", "pulls.get(diff)", "pulls.get",
                                   "pulls.createReview"}

TokenExchangeFailed(run) == \E i \in 1..Len(run.calls) : TokenExchangeFailedAt(run, i)

FailedOutcomes ==
    {"Failed(diff-fetch)", "Failed(pr-details)", "Failed(post-review)", "Failed(ai-review)",
     "Failed(installation-lookup)", "Failed(internal)"}

\* C16: a run in which an installation-token exchange failed (the one of the
\* duplicate check included) ends in a Failed outcome with a 500 answer, never
\* Posted or Skipped.
C16_TokenFailureSurfaces ==
    \A r \in Runs :
        TokenExchangeFailed(runs[r]) /\ runs[r].pc = "done" =>
            /\ runs[r].outcome \in FailedOutcomes
            /\ Status(runs[r]) = 500

(***************************************************************************)
(* hasBotReviewed applied to every listing, inside the duplicate check of  *)
(* handlePullRequestEvent                                                  *)
(***************************************************************************)
MaxReviews == 2

\* review.user?.login of a listed review; Undefined for a review without user.
Logins == {BotLogin, HumanLogin, Undefined}

Listings == {<<"fail">>} \cup UNION {[1..n -> Logins] : n \in 0..MaxReviews}

InitGateway ==
    /\ InitProcess
    /\ openaiClient = FALSE
    /\ \E tok \in TokenOutcomes, listing \in Listings, botUsername \in {BotLogin, HumanLogin},
          b \in Processable :
          harness = [fn |-> "hasBotReviewed", tok |-> tok, listing |-> listing,
                     botUsername |-> botUsername,
                     run |-> WebhookEntry(IdleRun,
                                          Signed(b, Header(ExpectedSignature(env.webhookSecret,
                                                                             Payload(b)))),
                                          env.webhookSecret),
                     out |-> Result("none", FALSE, "none", <<>>), done |-> FALSE]

ApplyHasBotReviewed ==
    /\ harness.fn = "hasBotReviewed"
    /\ ~harness.done
    /\ harness.run.pc = "hasBotReviewed"
    /\ LET res == hasBotReviewed(harness.tok, harness.listing, harness.botUsername)
       IN harness' = [harness EXCEPT !.out = res,
                                     !.run = AfterHasBotReviewed(harness.run, res),
                                     !.done = TRUE]
    /\ UNCHANGED <<runs, reviews, openaiClient, env>>

NextGateway == ApplyHasBotReviewed

SpecGateway == InitGateway /\ [][NextGateway]_vars

ListingSucceeded(h) == h.tok = "ok" /\ h.listing # <<"fail">>

\* C17: hasBotReviewed never raises; it returns true exactly when the listing
\* succeeded and some listed review's user.login equals botUsername; when the
\* listing (or the token exchange before it) fails it returns false and the
\* run goes on to the diff fetch.
C17_HasBotReviewed ==
    harness.done =>
        /\ harness.out.kind = "return"
        /\ harness.out.value =
              (ListingSucceeded(harness)
               /\ \E i \in 1..Len(harness.listing) : harness.listing[i] = harness.botUsername)
        /\ ~ListingSucceeded(harness) =>
              /\ harness.out.value = FALSE
              /\ harness.run.pc = "getPRDiff"
              /\ harness.run.resp = <<>>

C17_Witness ==
    /\ harness.done
    /\ harness.tok = "ok"
    /\ harness.listing = <<"fail">>
    /\ harness.out = Result("return", FALSE, "none",
                            <<"apps.createInstallationAccessToken", "pulls.listReviews">>)
    /\ harness.run.pc = "getPRDiff"

ExternalOperations ==
    {"pulls.listReviews", "pulls.get(diff)", "pulls.get", "chat.completions.create",
     "pulls.createReview"}

LastCall(run) == run.calls[Len(run.calls)]

\* The REST call of a gateway method failed (its token exchange succeeded).
RestFailed(run, message, call) == run.err = message => LastCall(run) = call

CompletionFailed(run) == run.backend \in {"throw429", "throw"}

CallsAfterCompletion(run) ==
    LET i == CHOOSE k \in 1..Len(run.calls) : run.calls[k] = "chat.completions.create"
    IN SubSeq(run.calls, i + 1, Len(run.calls))

AtMostOnce ==
    \A r \in Runs : \A op \in ExternalOperations : TimesCalled(runs[r], op) <= 1

\* C18: no retry.  Within a run each external operation (listReviews, diff,
\* details, completion, createReview) is invoked at most once; a failed diff,
\* details or createReview call is the last call of the run, and a failed
\* completion call is followed by nothing but the one review post (its token
\* exchange and createReview), never by a call made before.
C18_NoRetry ==
    /\ AtMostOnce
    /\ \A r \in Runs :
          /\ RestFailed(runs[r], "Failed to fetch PR diff: HttpError", "pulls.get(diff)")
          /\ RestFailed(runs[r], "Failed to fetch PR details: HttpError", "pulls.get")
          /\ RestFailed(runs[r], "Failed to fetch PR details: HttpError: Not Found",
                        "pulls.get")
          /\ RestFailed(runs[r], "Failed to post review comments: HttpError",
                        "pulls.createReview")
          /\ CompletionFailed(runs[r]) =>
                CallsAfterCompletion(runs[r]) \in
                    {<<>>, <<"apps.createInstallationAccessToken">>,
                     <<"apps.createInstallationAccessToken", "pulls.createReview">>}

C18_Witness ==
    \E r \in Runs :
        /\ CompletionFailed(runs[r])
        /\ runs[r].err = "Failed to post review comments: HttpError"
        /\ TimesCalled(runs[r], "pulls.createReview") = 1
        /\ runs[r].pc = "done"

\* The member of a list element as the completion supplied it: absent when
\* the element is not an object, lacks the member, or holds the empty string.
Supplied(e, field) ==
    IF e.t = "comment" /\ e[field] # Undefined /\ e[field] # "" THEN e[field] ELSE Undefined

HasListOfComments(h) ==
    /\ ClientAvailable(h.cached, h.apiKey)
    /\ h.backend.kind = "content"
    /\ LET p == extractJSONFromResponse(h.backend.text)
       IN /\ p.kind = "return"
          /\ p.value.t = "obj"
          /\ p.value.comments.t = "list"

ListedComments(h) == extractJSONFromResponse(h.backend.text).value.comments.items

Coerced(e, index, c) ==
    /\ c.id = (IF Supplied(e, "id") = Undefined
               THEN "comment_" \o ToString(index) ELSE e.id)
    /\ c.content = (IF Supplied(e, "content") = Undefined
                    THEN "No content provided" ELSE e.content)
    /\ c.type = (IF Supplied(e, "type") \in ValidTypes THEN e.type ELSE "suggestion")

\* C19: for a completion that is an object whose comments member is a list,
\* the result holds one comment per element, in order; element i gets id
\* "comment_i", content "No content provided" and type "suggestion" where it
\* supplies none (or no valid type), and keeps what it supplies.
C19_ElementCoercion ==
    harness.done /\ HasListOfComments(harness) =>
        /\ harness.out.kind = "resolve"
        /\ Len(harness.out.comments) = Len(ListedComments(harness))
        /\ \A i \in 1..Len(ListedComments(harness)) :
              Coerced(ListedComments(harness)[i], i - 1, harness.out.comments[i])

\* The text is not JSON and no "{" in it is followed by a "}".
NoJsonNoBraceSpan(text) ==
    /\ JSONParse(text).kind = "throw"
    /\ ~\E i, j \in 1..Len(text) : i < j /\ text[i] = "{" /\ text[j] = "}"

\* C20: for a completion text that is not JSON and holds no brace-delimited
\* span, the result is exactly one comment: id "fallback_1", type "warning",
\* content "Unable to parse AI response. Please try again.".
C20_NoBraceFallback ==
    /\ harness.done
    /\ ClientAvailable(harness.cached, harness.apiKey)
    /\ harness.backend.kind = "content"
    /\ NoJsonNoBraceSpan(harness.backend.text)
    => /\ harness.out.kind = "resolve"
       /\ harness.out.comments =
             <<ReviewComment("fallback_1", Undefined,
                             "Unable to parse AI response. Please try again.", "warning")>>
       /\ harness.out.metadata.totalComments = 1

C20_Witness ==
    /\ harness.done
    /\ harness.backend.kind = "content"
    /\ harness.backend.text = <<"prose">>
    /\ Len(harness.out.comments) = 1
    /\ harness.out.comments[1].id = "fallback_1"
    /\ harness.out.comments[1].type = "warning"

\* The text is not JSON, and the span from its first "{" to its last "}" is
\* not JSON either.
BothParsesFail(text) ==
    /\ JSONParse(text).kind = "throw"
    /\ HasBraceMatch(text)
    /\ JSONParse(BraceMatch(text)).kind = "throw"

\* C21: when the direct parse of the completion text fails and the parse of
\* its brace span fails too, the result is the single comment fallback_1,
\* type "warning", "Unable to parse AI response. Please try again.".
C21_BothParsesFailFallback ==
    /\ harness.done
    /\ ClientAvailable(harness.cached, harness.apiKey)
    /\ harness.backend.kind = "content"
    /\ BothParsesFail(harness.backend.text)
    => /\ harness.out.kind = "resolve"
       /\ harness.out.comments =
             <<ReviewComment("fallback_1", Undefined,
                             "Unable to parse AI response. Please try again.", "warning")>>

\* The end of the balanced span that starts at the "{" at position i - 1
\* (depth braces are open before position i); 0 when it is never closed.
RECURSIVE BalancedEnd(_, _, _)
BalancedEnd(text, i, depth) ==
    IF i > Len(text) THEN 0
    ELSE IF text[i] = "{" THEN BalancedEnd(text, i + 1, depth + 1)
    ELSE IF text[i] = "}"
         THEN (IF depth = 1 THEN i ELSE BalancedEnd(text, i + 1, depth - 1))
    ELSE BalancedEnd(text, i + 1, depth)

HasBalancedSpan(text) ==
    /\ Positions(text, "{") # {}
    /\ BalancedEnd(text, Min(Positions(text, "{")) + 1, 1) # 0

FirstBalancedSpan(text) ==
    SubSeq(text, Min(Positions(text, "{")),
           BalancedEnd(text, Min(Positions(text, "{")) + 1, 1))

EmbedsJsonObject(text) ==
    /\ JSONParse(text).kind = "throw"
    /\ HasBalancedSpan(text)
    /\ JSONParse(FirstBalancedSpan(text)).kind = "return"

\* C22: when the completion text is not JSON but its first balanced {...}
\* span is a JSON object, whatever prose surrounds it (trailing text with
\* braces included), the result is the one obtained for that object alone.
C22_EmbeddedJsonRecovered ==
    /\ harness.done
    /\ ClientAvailable(harness.cached, harness.apiKey)
    /\ harness.backend.kind = "content"
    /\ EmbedsJsonObject(harness.backend.text)
    => harness.out =
          reviewCodeWithAI(harness.cached, harness.apiKey,
                           BackendContent(FirstBalancedSpan(harness.backend.text)),
                           harness.focus)

ParsesToObject(h) ==
    /\ ClientAvailable(h.cached, h.apiKey)
    /\ h.backend.kind = "content"
    /\ LET p == extractJSONFromResponse(h.backend.text)
       IN p.kind = "return" /\ p.value.t = "obj"

CommentsMember(h) == extractJSONFromResponse(h.backend.text).value.comments

OneCommentOfType(out, type) ==
    /\ out.kind = "resolve"
    /\ Len(out.comments) = 1
    /\ out.comments[1].type = type

\* C23: for a parsed object without a comments member the result is exactly
\* one comment of type info; with a comments member that is not a list (null,
\* false, 0, the empty string, a number, a string, an object) it is exactly
\* one comment of type warning.
C23_ShapeValidation ==
    harness.done /\ ParsesToObject(harness) =>
        /\ CommentsMember(harness).t = "undefined" => OneCommentOfType(harness.out, "info")
        /\ CommentsMember(harness).t \notin {"undefined", "list"} =>
              OneCommentOfType(harness.out, "warning")

\* C24: every comment of every result of reviewCodeWithAI, on every return
\* path (validated, fallback, error), has a type among error, warning,
\* suggestion and info.
C24_TypeInvariant ==
    harness.done =>
        /\ harness.out.kind = "resolve"
        /\ \A i \in 1..Len(harness.out.comments) :
              harness.out.comments[i].type \in {"error", "warning", "suggestion", "info"}

C24_Witness ==
    /\ harness.done
    /\ harness.backend.kind = "content"
    /\ harness.backend.text = <<"{", "m:two", "}">>
    /\ Len(harness.out.comments) = 2
    /\ harness.out.comments[1].type = "error"
    /\ harness.out.comments[2].type = "suggestion"

TypesOf(comments) == {comments[i].type : i \in 1..Len(comments)}

NumberOfType(comments, ty) == Cardinality({i \in 1..Len(comments) : comments[i].type = ty})

RECURSIVE SumOver(_, _)
SumOver(f, S) ==
    IF S = {} THEN 0
    ELSE LET x == CHOOSE y \in S : TRUE IN f[x] + SumOver(f, S \ {x})

\* C25: in every result of reviewCodeWithAI, metadata.totalComments is the
\* length of comments, and metadata.commentTypes has an entry exactly for the
\* types that occur, each holding the number of comments of that type; its
\* values sum to totalComments.
C25_MetadataConsistent ==
    harness.done =>
        LET out == harness.out
            table == out.metadata.commentTypes
        IN /\ out.kind = "resolve"
           /\ out.metadata.totalComments = Len(out.comments)
           /\ DOMAIN table = TypesOf(out.comments)
           /\ \A ty \in DOMAIN table : table[ty] = NumberOfType(out.comments, ty)
           /\ SumOver(table, DOMAIN table) = out.metadata.totalComments

C25_Witness ==
    /\ harness.done
    /\ harness.backend.kind = "content"
    /\ harness.backend.text = <<"{", "m:same", "}">>
    /\ harness.out.metadata.totalComments = 2
    /\ harness.out.metadata.commentTypes = [ty \in {"info"} |-> 2]

(***************************************************************************)
(* convertToGitHubComments applied to every list of comments               *)
(***************************************************************************)
MaxComments == 2

AIComments ==
    {ReviewComment("c", fileName, content, "info") :
        fileName \in {Undefined, "a.ts"}, content \in {"x", "y", "", " ", "\n", Undefined}}

InitMapping ==
    /\ InitProcess
    /\ openaiClient = FALSE
    /\ \E n \in 0..MaxComments :
          \E aiComments \in [1..n -> AIComments], headSha \in {"sha1", Undefined} :
             harness = [fn |-> "convertToGitHubComments", aiComments |-> aiComments,
                        diff |-> <<"+", " ", "a">>, headSha |-> headSha,
                        out |-> <<>>, done |-> FALSE]

ApplyConvertToGitHubComments ==
    /\ harness.fn = "convertToGitHubComments"
    /\ ~harness.done
    /\ harness' = [harness EXCEPT
                     !.out = convertToGitHubComments(harness.aiComments, harness.diff,
                                                     harness.headSha),
                     !.done = TRUE]
    /\ UNCHANGED <<runs, reviews, openaiClient, env>>

NextMapping == ApplyConvertToGitHubComments

SpecMapping == InitMapping /\ [][NextMapping]_vars

NonEmptyAfterTrim(comment) == comment.content \in {"x", "y"}

WireComment(comment, headSha) ==
    [body |-> comment.content,
     commit_id |-> IF headSha = Undefined THEN "" ELSE headSha,
     position |-> 1,
     path |-> IF comment.fileName = Undefined THEN "" ELSE comment.fileName]

\* The i-th kept comment is the input comment before which i - 1 others are kept.
KeptBefore(aiComments, k) ==
    Cardinality({j \in 1..(k - 1) : NonEmptyAfterTrim(aiComments[j])})

\* C26: convertToGitHubComments returns, in input order, one wire comment
\* for each input comment whose content is non-empty after trimming and none
\* for the others; body is the content, commit_id the head SHA, position 1,
\* path the fileName or "" when there is none.
C26_CommentMapping ==
    harness.done =>
        LET in == harness.aiComments
            out == harness.out
        IN /\ Len(out) = Cardinality({k \in 1..Len(in) : NonEmptyAfterTrim(in[k])})
           /\ \A k \in 1..Len(in) :
                 NonEmptyAfterTrim(in[k]) =>
                    out[KeptBefore(in, k) + 1] = WireComment(in[k], harness.headSha)

C26_Witness ==
    /\ harness.done
    /\ Len(harness.aiComments) = 2
    /\ harness.aiComments[1].content = " "
    /\ harness.aiComments[2].content = "y"
    /\ harness.headSha = "sha1"
    /\ harness.out = <<[path |-> "", position |-> 1, body |-> "y", commit_id |-> "sha1"]>>

\* The API call of each installation-scoped gateway operation, by the
\* position of the handler that awaits it.
GatewayCall ==
    [pc \in {"hasBotReviewed", "getPRDiff", "getPRDetails", "postReviewComments"} |->
        CASE pc = "hasBotReviewed" -> "pulls.listReviews"
          [] pc = "getPRDiff" -> "pulls.get(diff)"
          [] pc = "getPRDetails" -> "pulls.get"
          [] pc = "postReviewComments" -> "pulls.createReview"]

NewCalls(r) == SubSeq(runs'[r].calls, Len(runs[r].calls) + 1, Len(runs'[r].calls))

OwnTokenExchange(r) ==
    IF runs[r].pc \in DOMAIN GatewayCall
    THEN NewCalls(r) \in
            {<<"apps.createInstallationAccessToken">>,
             <<"apps.createInstallationAccessToken", GatewayCall[runs[r].pc]>>}
    ELSE \A i \in 1..Len(NewCalls(r)) :
            NewCalls(r)[i] \notin
                {"apps.createInstallationAccessToken"} \cup {GatewayCall[pc] : pc \in DOMAIN GatewayCall}

\* C27: every installation-scoped gateway operation a run invokes
\* (hasBotReviewed, getPRDiff, getPRDetails, postReviewComments) makes exactly
\* one installation-token exchange of its own, before its API call; no other
\* step makes an exchange or a gateway API call, so the exchanges of a run are
\* as many as the operations it invoked.
C27_NoTokenReuse ==
    [][\A r \in Runs : runs'[r] # runs[r] => OwnTokenExchange(r)]_vars

C27_Witness ==
    \E r \in Runs :
        /\ runs[r].outcome = "Posted"
        /\ runs[r].calls =
              <<"apps.createInstallationAccessToken", "pulls.listReviews",
                "apps.createInstallationAccessToken", "pulls.get(diff)",
                "chat.completions.create",
                "apps.createInstallationAccessToken", "pulls.createReview">>

\* The installation lookup of a manual run was made and gave no installation.
NotInstalled(run) ==
    /\ run.req.kind = "manual"
    /\ Called(run, "apps.getRepoInstallation")
    /\ run.pc # "getRepositoryInstallation"
    /\ run.installationId = 0

\* C28: getRepositoryInstallation answers null, without raising, when the
\* App is not installed on the repository; the manual run then answers 404
\* "GitHub App not installed on this repository" and makes no details, diff,
\* completion or createReview call.
C28_NotInstalled ==
    \A r \in Runs :
        NotInstalled(runs[r]) =>
            /\ runs[r].err = "none"
            /\ runs[r].pc = "done"
            /\ runs[r].outcome = "NotFound(not-installed)"
            /\ runs[r].resp = <<Json(404, "GitHub App not installed on this repository", "")>>
            /\ runs[r].calls = <<"apps.getRepoInstallation">>
            /\ runs[r].ai = NoAI

C28_Witness ==
    \E r \in Runs :
        /\ NotInstalled(runs[r])
        /\ runs[r].outcome = "NotFound(not-installed)"
        /\ Status(runs[r]) = 404

\* C29: a manual run whose pull-request lookup fails with not-found (the App
\* is installed, the pull request does not exist) is answered 404, not 500.
C29_MissingPullRequestIs404 ==
    \A r \in Runs :
        runs[r].err = "Failed to fetch PR details: HttpError: Not Found" =>
            /\ runs[r].pc = "done"
            /\ Status(runs[r]) = 404

\* C30: when NODE_ENV is production, no 500 answer of the webhook or
\* manual-review handler carries the underlying error message.
C30_NoDetailInProduction ==
    \A r \in Runs :
        env.nodeEnv = "production" =>
            \A i \in 1..Len(runs[r].resp) :
                runs[r].resp[i].status = 500 => runs[r].resp[i].details = ""

\* The reviews of each pull request before any run of the process.
InitialReviews == [p \in PRs |-> IF p = "pr2" THEN <<HumanLogin>> ELSE <<>>]

\* The steps a run can take from `run` when it is the only run of a process
\* just started: no client cached, no review posted by another run.
AloneSuccessors(run) ==
    CASE run.pc = "idle" ->
            {WebhookEntry(run, req, env.webhookSecret) : req \in WebhookRequests}
            \cup {ManualEntry(run, req) : req \in ManualRequests}
            \cup {ReviewRun(run, reviewCode(body, FALSE, env.apiKey, backend)) :
                    body \in SampleReviewBodies, backend \in BackendOutcomes}
      [] run.pc = "hasBotReviewed" ->
            {AfterHasBotReviewed(run, hasBotReviewed(tok, listing, env.botUsername)) :
                tok \in TokenOutcomes, listing \in {<<"fail">>, InitialReviews[run.req.pr]}}
      [] run.pc = "getRepositoryInstallation" ->
            {AfterGetRepositoryInstallation([run EXCEPT !.lookup = api],
                                            getRepositoryInstallation(api)) :
                api \in {"installed", "notInstalled", "fail", "signingError"}}
      [] run.pc = "getPRDetails" ->
            {AfterGetPRDetails(run, getPRDetails(tok, api)) :
                tok \in TokenOutcomes, api \in {"fail", "notFound", "sha1"}}
      [] run.pc = "getPRDiff" ->
            {IF IsWebhook(run) THEN AfterGetPRDiff(run, getPRDiff(tok, api))
                               ELSE ManualAfterGetPRDiff(run, getPRDiff(tok, api)) :
                tok \in TokenOutcomes, api \in {<<"fail">>} \cup Diffs}
      [] run.pc = "reviewCodeWithAI" ->
            {LET ai == reviewCodeWithAI(FALSE, env.apiKey, backend, "general")
                 tag == IF env.apiKey THEN BackendTag(backend) ELSE "notCalled"
             IN IF IsWebhook(run)
                THEN AfterReviewCodeWithAI(run, ai, AICalls(FALSE, env.apiKey), tag)
                ELSE ManualAfterReviewCodeWithAI(run, ai, AICalls(FALSE, env.apiKey), tag) :
                backend \in BackendOutcomes}
      [] run.pc = "postReviewComments" ->
            {IF IsWebhook(run) THEN AfterPostReviewComments(run, postReviewComments(tok, api))
                               ELSE ManualAfterPostReviewComments(run,
                                                                  postReviewComments(tok, api)) :
                tok \in TokenOutcomes, api \in {"ok", "fail"}}
      [] OTHER -> {}

OnDistinctPullRequests(r) == \A q \in Runs \ {r} : runs[q].req.pr # runs'[r].req.pr

\* C31 (amended): a run on a pull request no other run works on takes, in
\* every interleaving, only steps it can take when it runs alone in a fresh
\* process, so its outcome and its external calls are those of a run alone;
\* the one piece of state a run reads after another run wrote it is the
\* cached completion client.
C31_RunIndependence ==
    [][\A r \in Runs :
          runs'[r] # runs[r] /\ OnDistinctPullRequests(r) =>
             runs'[r] \in AloneSuccessors(runs[r])]_vars

C31_Witness ==
    \E r, q \in Runs :
        /\ r # q
        /\ runs[r].req.pr = "pr1" /\ runs[q].req.pr = "pr2"
        /\ runs[r].outcome = "Posted" /\ runs[q].outcome = "Posted"
        /\ IsWebhook(runs[r]) /\ IsWebhook(runs[q])

\* C31 as stated, its last part: among runs on distinct pull requests no run
\* reads state written by another run, so a run about to call
\* reviewCodeWithAI finds no client cached.
C31_NoSharedState ==
    \A r \in Runs :
        /\ runs[r].pc = "reviewCodeWithAI"
        /\ \A q \in Runs \ {r} : runs[q].req.pr # runs[r].req.pr
        => openaiClient = FALSE

(***************************************************************************)
(* generateJWT (GitHubService) applied to every clock reading and app id   *)
(***************************************************************************)
MaxClock == 40

\* Date.now(): milliseconds.
Clock == {t * 499 : t \in 0..MaxClock}

\* A base64url segment holds no "."; the token is segments joined by ".".
Base64Url(v) == [sep |-> FALSE, data |-> v]
Dot == [sep |-> TRUE, data |-> "."]
Base64UrlDecode(segment) == segment.data

\* crypto.createSign('RSA-SHA256').update(data).sign(privateKey, 'base64url')
Sign(data, privateKey) ==
    IF privateKey = "valid" THEN Return(Base64Url([signed |-> data])) ELSE Throw("SigningError")

\* Mutant: iat taken from Date.now() as it is, in milliseconds.
generateJWT_Millis(nowMs, appId, privateKey) ==
    LET payload == [iat |-> nowMs, exp |-> nowMs + 600, iss |-> appId]
        header == [alg |-> "RS256", typ |-> "JWT"]
        data == <<Base64Url(header), Dot, Base64Url(payload)>>
        signature == Sign(data, privateKey)
    IN IF signature.kind = "throw" THEN signature
       ELSE Return(data \o <<Dot, signature.value>>)

generateJWT(nowMs, appId, privateKey) ==
    LET now == nowMs \div 1000
        payload == [iat |-> now, exp |-> now + 600, iss |-> appId]
        header == [alg |-> "RS256", typ |-> "JWT"]
        data == <<Base64Url(header), Dot, Base64Url(payload)>>
        signature == Sign(data, privateKey)
    IN IF signature.kind = "throw" THEN signature
       ELSE Return(data \o <<Dot, signature.value>>)

InitJWT ==
    /\ InitProcess
    /\ openaiClient = FALSE
    /\ \E nowMs \in Clock, appId \in {"12345", "mock-app-id"},
          privateKey \in {"valid", "malformed"} :
          harness = [fn |-> "generateJWT", nowMs |-> nowMs, appId |-> appId,
                     privateKey |-> privateKey, out |-> Throw("none"), done |-> FALSE]

ApplyGenerateJWT ==
    /\ harness.fn = "generateJWT"
    /\ ~harness.done
    /\ harness' = [harness EXCEPT
                     !.out = generateJWT(harness.nowMs, harness.appId, harness.privateKey),
                     !.done = TRUE]
    /\ UNCHANGED <<runs, reviews, openaiClient, env>>

NextJWT == ApplyGenerateJWT

SpecJWT == InitJWT /\ [][NextJWT]_vars

\* token.split('.'): the segments between the dots.
RECURSIVE SplitAtDots(_)
SplitAtDots(token) ==
    IF \A i \in 1..Len(token) : ~token[i].sep THEN <<token>>
    ELSE LET d == Min({i \in 1..Len(token) : token[i].sep})
         IN <<SubSeq(token, 1, d - 1)>> \o SplitAtDots(SubSeq(token, d + 1, Len(token)))

\* C32: for every clock reading and app id, the token generateJWT returns has
\* exactly three dot-separated segments, and its second segment decodes to a
\* payload with iat = now in seconds, exp = iat + 600 and iss = appId, so
\* exp > iat.
C32_IdentityToken ==
    harness.done /\ harness.out.kind = "return" =>
        LET segments == SplitAtDots(harness.out.value)
        IN /\ Len(segments) = 3
           /\ \A k \in 1..3 : Len(segments[k]) = 1
           /\ LET payload == Base64UrlDecode(segments[2][1])
              IN /\ payload.iat * 1000 <= harness.nowMs
                 /\ harness.nowMs < (payload.iat + 1) * 1000
                 /\ payload.exp = payload.iat + 600
                 /\ payload.iss = harness.appId
                 /\ payload.exp > payload.iat

C32_Witness ==
    /\ harness.done
    /\ harness.out.kind = "return"
    /\ harness.nowMs = 1996
    /\ Base64UrlDecode(harness.out.value[3]) = [iat |-> 1, exp |-> 601, iss |-> harness.appId]

(***************************************************************************)
(* POST /api/review                                                        *)
(***************************************************************************)
AllWhitespace(str) == \A i \in 1..Len(str) : str[i].ch \in {" ", "\n", "\t"}

\* The diff is missing, is not a string, is empty or is whitespace-only.
MissingOrBlank(diff) == diff.t # "string" \/ AllWhitespace(diff.runs)

InvalidInputReply ==
    ReviewReply(400, TRUE, "Invalid input: diff is required and must be a non-empty string",
                "", NoAI)

\* C33: a request whose diff is missing, is not a string, is empty or is
\* whitespace-only is answered 400 'Invalid input: diff is required and must
\* be a non-empty string', and the AI service is never invoked.
C33_InputValidation ==
    harness.done /\ MissingOrBlank(harness.body.diff) =>
        /\ harness.resp = <<InvalidInputReply>>
        /\ harness.requests = <<>>
        /\ harness.calls = <<>>

C33_Witness ==
    /\ harness.done
    /\ harness.body.diff = JsString(<<Run("\n", 1), Run(" ", 2)>>)
    /\ harness.resp = <<InvalidInputReply>>
    /\ harness.requests = <<>>

SizeRejected(h, text) ==
    /\ h.resp = <<ReviewReply(400, TRUE, text, "", NoAI)>>
    /\ h.requests = <<>>
    /\ h.calls = <<>>

RejectedForSize(h) ==
    \E i \in 1..Len(h.resp) :
        h.resp[i].error \in
            {"Diff is too large. Please provide a smaller code diff (max 8,000 characters).",
             "Diff is too large. Please provide a smaller code diff (max 10,000 characters)."}

IsStripOf(out, str) ==
    /\ out # <<>> => ~IsSpace(out[1].ch) /\ ~IsSpace(out[Len(out)].ch)
    /\ \E i, j \in 0..Len(str) :
          /\ i + j <= Len(str)
          /\ out = SubSeq(str, i + 1, Len(str) - j)
          /\ AllWhitespace(SubSeq(str, 1, i))
          /\ AllWhitespace(SubSeq(str, Len(str) - j + 1, Len(str)))

ValidDiff(diff) == ~MissingOrBlank(diff) /\ StrLength(diff.runs) <= 8000

AllowedPromptSettings(promptConfig) ==
    promptConfig.present =>
        /\ promptConfig.tone \in Allowed.tone \cup {Undefined}
        /\ promptConfig.focus \in Allowed.focus \cup {Undefined}
        /\ promptConfig.detail \in Allowed.detail \cup {Undefined}

ServedOnce(h) ==
    /\ Len(h.requests) = 1
    /\ IsStripOf(h.requests[1].diff, h.body.diff.runs)
    /\ h.requests[1].promptConfig = h.body.promptConfig
    /\ Len(h.results) = 1
    /\ h.resp = <<ReviewReply(200, FALSE, "", "", h.results[1])>>

\* C35 (amended): for a valid diff and prompt settings that are absent or
\* allowed, reviewCode invokes the AI service exactly once with the diff
\* stripped of leading and trailing whitespace, and responds with exactly the
\* service's result without setting a status.
C35_SuccessPath ==
    /\ harness.done
    /\ ValidDiff(harness.body.diff)
    /\ AllowedPromptSettings(harness.body.promptConfig)
    => ServedOnce(harness)

C35_Witness ==
    /\ harness.done
    /\ harness.body.diff = JsString(<<Run(" ", 2), Run("a", 7997), Run("\n", 1)>>)
    /\ harness.requests = <<[diff |-> <<Run("a", 7997)>>,
                             promptConfig |-> harness.body.promptConfig]>>
    /\ harness.resp[1].result.kind = "resolve"
    /\ ~harness.resp[1].statusCalled

\* C35 as stated: every valid diff is served, whatever the prompt settings.
C35_EveryValidDiffServed ==
    harness.done /\ ValidDiff(harness.body.diff) => ServedOnce(harness)

(***************************************************************************)
(* Responses                                                               *)
(***************************************************************************)
Terminated(run) == run.pc = "done"

\* C36: every webhook, manual-review and /api/review request terminates, and
\* when it has terminated exactly one response has been sent for it; at no
\* point have two been sent.
C36_ExactlyOneResponse ==
    /\ [](\A r \in Runs :
            /\ Len(runs[r].resp) <= 1
            /\ Terminated(runs[r]) => Len(runs[r].resp) = 1)
    /\ <>(\A r \in Runs : Terminated(runs[r]))

C36_Witness ==
    \E r, q \in Runs :
        /\ runs[r].req.kind = "webhook" /\ Terminated(runs[r])
        /\ runs[r].outcome = "Failed(diff-fetch)" /\ Len(runs[r].resp) = 1
        /\ runs[q].req.kind \in {"manual", "review"} /\ Terminated(runs[q])
        /\ runs[q].outcome \in {"Posted", "Reviewed"} /\ Len(runs[q].resp) = 1

(***************************************************************************)
(* The review a webhook run posts                                          *)
(***************************************************************************)
\* C37: whenever a webhook-triggered run calls createReview, the wire
\* comments it attaches are non-empty and as many as the count announced in
\* the review body.
C37_AttachedAsAnnounced ==
    \A r \in Runs :
        IsWebhook(runs[r]) /\ Called(runs[r], "pulls.createReview") =>
            /\ runs[r].review.comments # <<>>
            /\ Len(runs[r].review.comments) = runs[r].review.count

(***************************************************************************)
(* Manual-trigger runs                                                     *)
(***************************************************************************)
BotReviewed(p) == \E i \in 1..Len(reviews[p]) : reviews[p][i] = BotLogin

\* C38: a manual-trigger run on a pull request the bot identity has already
\* reviewed does not call createReview.
C38_ManualDuplicateCheck ==
    [][\A r \in Runs :
          runs[r].req.kind = "manual" /\ BotReviewed(runs[r].req.pr) =>
             \A i \in 1..Len(NewCalls(r)) : NewCalls(r)[i] # "pulls.createReview"]_vars

LookedUp(run) ==
    run.req.kind = "manual" /\ run.lookup # "none"

\* C39: in a manual-trigger run the 404 'GitHub App not installed on this
\* repository' is answered only when the lookup found the App not installed;
\* a lookup that failed for another reason (signing error, network or API
\* failure) is answered 500 'Failed to get installation ID'.
C39_LookupFailureIs500 ==
    \A r \in Runs :
        LookedUp(runs[r]) =>
            /\ runs[r].lookup \in {"fail", "signingError"} =>
                  /\ Len(runs[r].resp) = 1
                  /\ runs[r].resp[1].status = 500
                  /\ runs[r].resp[1].body = "Failed to get installation ID"
            /\ runs[r].resp = <<Json(404, "GitHub App not installed on this repository", "")>>
                  => runs[r].lookup = "notInstalled"

(***************************************************************************)
(* formatPrompt (prompts) applied to every short diff                      *)
(***************************************************************************)
\* A prompt text is a sequence of characters; "{diff}" and the fixed pieces
\* of a template, which hold neither "$" nor a placeholder, stand as one.
\* "apostrophe" and "backtick" are the characters of those names.
MaxDiffChars == 3

PromptDiffs ==
    UNION {[1..n -> {"a", "1", "$", "&", "apostrophe", "backtick", "{diff}"}] :
             n \in 0..MaxDiffChars}

\* The user text of a template: its opening line, the opening fence of the
\* diff block, the placeholder, the closing fence.
PROMPT_TEMPLATES ==
    [key \in {"professional", "security", "performance", "clean-code"} |->
        [name |-> key,
         systemPrompt |-> <<"system prompt", key>>,
         userPromptTemplate |->
            <<(CASE key = "professional" ->
                        "Please review this code diff and provide feedback:"
                  [] key = "security" ->
                        "Please review this code diff for security concerns:"
                  [] key = "performance" ->
                        "Please review this code diff for performance implications:"
                  [] OTHER ->
                        "Please review this code diff for clean code principles:"),
              "fence diff", "{diff}", "fence">>]]

\* GetSubstitution for a string pattern (no capture groups): "$$" stands for
\* "$", "$&" for the matched text, "$" with a backtick or an apostrophe for
\* the text before or after the match; any other "$" stands for itself.
RECURSIVE GetSubstitution(_, _, _, _)
GetSubstitution(replacement, before, matched, after) ==
    IF replacement = <<>> THEN <<>>
    ELSE IF Head(replacement) = "$" /\ Len(replacement) >= 2
            /\ replacement[2] \in {"$", "&", "backtick", "apostrophe"}
    THEN LET rest == GetSubstitution(SubSeq(replacement, 3, Len(replacement)),
                                     before, matched, after)
         IN CASE replacement[2] = "$" -> <<"$">> \o rest
              [] replacement[2] = "&" -> matched \o rest
              [] replacement[2] = "backtick" -> before \o rest
              [] OTHER -> after \o rest
    ELSE <<Head(replacement)>> \o GetSubstitution(Tail(replacement), before, matched, after)

\* String.prototype.replace(searchValue, replaceValue) with two strings: the
\* first occurrence is replaced by the substitution of replaceValue.
StringReplace(str, searchValue, replaceValue) ==
    IF \A i \in 1..Len(str) : str[i] # searchValue THEN str
    ELSE LET pos == Min({i \in 1..Len(str) : str[i] = searchValue})
             before == SubSeq(str, 1, pos - 1)
             after == SubSeq(str, pos + 1, Len(str))
         IN before \o GetSubstitution(replaceValue, before, <<searchValue>>, after) \o after

formatPrompt(template, diff) ==
    [system |-> template.systemPrompt,
     user |-> StringReplace(template.userPromptTemplate, "{diff}", diff)]

InitPrompt ==
    /\ InitProcess
    /\ openaiClient = FALSE
    /\ \E key \in DOMAIN PROMPT_TEMPLATES, diff \in PromptDiffs :
          harness = [fn |-> "formatPrompt", template |-> PROMPT_TEMPLATES[key],
                     diff |-> diff, out |-> [system |-> <<>>, user |-> <<>>],
                     done |-> FALSE]

ApplyFormatPrompt ==
    /\ harness.fn = "formatPrompt"
    /\ ~harness.done
    /\ harness' = [harness EXCEPT !.out = formatPrompt(harness.template, harness.diff),
                                  !.done = TRUE]
    /\ UNCHANGED <<runs, reviews, openaiClient, env>>

NextPrompt == ApplyFormatPrompt

SpecPrompt == InitPrompt /\ [][NextPrompt]_vars

\* The template's user text with its placeholder replaced by the diff.
Embedded(template, diff) ==
    LET text == template.userPromptTemplate
        pos == CHOOSE i \in 1..Len(text) : text[i] = "{diff}"
    IN SubSeq(text, 1, pos - 1) \o diff \o SubSeq(text, pos + 1, Len(text))

\* C40: for every diff, the user prompt is the template's user text with its
\* single {diff} placeholder replaced by exactly the characters of the diff,
\* and the system prompt is the template's system prompt unchanged.
C40_DiffVerbatim ==
    harness.done =>
        /\ harness.out.user = Embedded(harness.template, harness.diff)
        /\ harness.out.system = harness.template.systemPrompt

====
